---------------------------- MODULE Spec2Model ----------------------------
(***************************************************************************)
(* A model of the Cerebral-Voice Squad orchestration code:                 *)
(*   - server/routes.ts   POST /api/agents/discuss (the agent orchestrator)*)
(*   - server/brave-search.ts  performResearch, shouldPerformResearch       *)
(*   - server/storage.ts  MongoDBStorage (history lookup)                   *)
(*   - server/minimax-tts.ts  generateAgentSpeech, generateSpeech           *)
(*   - client pages/home.tsx  Home, handleTranscript (the pipeline driver)  *)
(*                                                                         *)
(* Text.  A JavaScript string is modelled as a run-length encoded sequence *)
(* of runs [c |-> symbol, n |-> count], kept normalised (no empty run, no  *)
(* two adjacent runs with the same symbol), so that equal strings are      *)
(* equal values and strings of several hundred thousand UTF-16 units stay  *)
(* small.  A symbol that is a one-character string is that character.  A   *)
(* longer symbol (written "#name") stands for a fixed literal of the       *)
(* source of which only the length matters (a system prompt, a fixed       *)
(* sentence); n is then the number of UTF-16 units of the literal.         *)
(*                                                                         *)
(* null / undefined are modelled as the empty sequence Null, a present     *)
(* value v as Some(v) = <<v>>.                                              *)
(***************************************************************************)
EXTENDS Integers, Sequences, FiniteSets, TLC

Null == <<>>

Some(v) == <<v>>

Min(a, b) == IF a <= b THEN a ELSE b

Max(a, b) == IF a >= b THEN a ELSE b

-----------------------------------------------------------------------------
(* Strings                                                                  *)

Run(c, n) == [c |-> c, n |-> n]

Rep(c, n) == IF n <= 0 THEN <<>> ELSE <<Run(c, n)>>

(* a + b *)
Cat(a, b) ==
  IF a = <<>> THEN b
  ELSE IF b = <<>> THEN a
  ELSE IF a[Len(a)].c = b[1].c
       THEN SubSeq(a, 1, Len(a) - 1) \o <<Run(b[1].c, a[Len(a)].n + b[1].n)>> \o Tail(b)
       ELSE a \o b

RECURSIVE CatAll(_)
CatAll(parts) == IF parts = <<>> THEN <<>> ELSE Cat(parts[1], CatAll(Tail(parts)))

(* the string made of the characters chars[1], chars[2], ... *)
RECURSIVE T(_)
T(chars) == IF chars = <<>> THEN <<>> ELSE Cat(Rep(chars[1], 1), T(Tail(chars)))

(* String.prototype.length *)
RECURSIVE TextLen(_)
TextLen(t) ==
  IF Len(t) = 0 THEN 0
  ELSE IF Len(t) = 1 THEN t[1].n
  ELSE LET h == Len(t) \div 2
       IN  TextLen(SubSeq(t, 1, h)) + TextLen(SubSeq(t, h + 1, Len(t)))

LowerOf(c) ==
  CASE c = "A" -> "a" [] c = "B" -> "b" [] c = "C" -> "c" [] c = "D" -> "d"
    [] c = "E" -> "e" [] c = "F" -> "f" [] c = "G" -> "g" [] c = "H" -> "h"
    [] c = "I" -> "i" [] c = "J" -> "j" [] c = "K" -> "k" [] c = "L" -> "l"
    [] c = "M" -> "m" [] c = "N" -> "n" [] c = "O" -> "o" [] c = "P" -> "p"
    [] c = "Q" -> "q" [] c = "R" -> "r" [] c = "S" -> "s" [] c = "T" -> "t"
    [] c = "U" -> "u" [] c = "V" -> "v" [] c = "W" -> "w" [] c = "X" -> "x"
    [] c = "Y" -> "y" [] c = "Z" -> "z" [] OTHER -> c

(* String.prototype.toLowerCase *)
RECURSIVE ToLowerCase(_)
ToLowerCase(t) ==
  IF t = <<>> THEN <<>> ELSE Cat(Rep(LowerOf(t[1].c), t[1].n), ToLowerCase(Tail(t)))

(* the characters of t, one per element, every run cut to at most m units:   *)
(* a substring of m units never spans more than m units of one run           *)
RECURSIVE Expand(_, _)
Expand(t, m) ==
  IF Len(t) = 0 THEN <<>>
  ELSE IF Len(t) = 1 THEN [i \in 1..Min(t[1].n, m) |-> t[1].c]
  ELSE LET h == Len(t) \div 2
       IN  Expand(SubSeq(t, 1, h), m) \o Expand(SubSeq(t, h + 1, Len(t)), m)

(* String.prototype.includes *)
Includes(t, p) ==
  LET m == TextLen(p)
      P == Expand(p, m)
      E == Expand(t, m)
  IN  \/ m = 0
      \/ \E i \in 1..(Len(E) - m + 1) : SubSeq(E, i, i + m - 1) = P

(* the first k units of t *)
RECURSIVE Take(_, _)
Take(t, k) ==
  IF k <= 0 \/ t = <<>> THEN <<>>
  ELSE IF t[1].n >= k THEN <<Run(t[1].c, k)>>
  ELSE <<t[1]>> \o Take(Tail(t), k - t[1].n)

(* t without its first k units *)
RECURSIVE Drop(_, _)
Drop(t, k) ==
  IF k <= 0 \/ t = <<>> THEN t
  ELSE IF t[1].n > k THEN <<Run(t[1].c, t[1].n - k)>> \o Tail(t)
  ELSE Drop(Tail(t), k - t[1].n)

(* String.prototype.substring(a, b): indices clamped to [0, length], swapped *)
(* when a > b                                                               *)
Substring(t, a, b) ==
  LET len == TextLen(t)
      ca  == Max(0, Min(a, len))
      cb  == Max(0, Min(b, len))
      lo  == Min(ca, cb)
      hi  == Max(ca, cb)
  IN  Take(Drop(t, lo), hi - lo)

(* String.prototype.lastIndexOf(c) for a one-unit c: 0-based, -1 when absent *)
LastIndexOf(t, c) ==
  LET S == {i \in 1..Len(t) : t[i].c = c}
  IN  IF S = {} THEN -1
      ELSE LET i == CHOOSE x \in S : \A y \in S : y <= x
           IN  TextLen(SubSeq(t, 1, i)) - 1

(* \s of a JavaScript regular expression, and the white space trim() removes *)
IsSpace(c) == c \in {" ", "\n", "\t", "\r"}

RECURSIVE TrimStart(_)
TrimStart(t) == IF t # <<>> /\ IsSpace(t[1].c) THEN TrimStart(Tail(t)) ELSE t

RECURSIVE TrimEnd(_)
TrimEnd(t) ==
  IF t # <<>> /\ IsSpace(t[Len(t)].c) THEN TrimEnd(SubSeq(t, 1, Len(t) - 1)) ELSE t

(* String.prototype.trim *)
Trim(t) == TrimEnd(TrimStart(t))

(* a fixed literal of the source, n UTF-16 units long, content not modelled *)
Lit(name, n) == Rep(name, n)

(* the decimal rendering of a non-negative integer in a template string:    *)
(* only its length is modelled                                              *)
RECURSIVE DecLen(_)
DecLen(k) == IF k < 10 THEN 1 ELSE 1 + DecLen(k \div 10)

NumText(k) == Lit("#digit", DecLen(k))

-----------------------------------------------------------------------------
(* server/brave-search.ts                                                   *)

researchQuestionPatterns ==
  << T(<<"w","h","a","t"," ","i","s"," ","t","h","e"," ","b","e","s","t">>),
     T(<<"w","h","a","t","'","s"," ","t","h","e"," ","b","e","s","t">>),
     T(<<"w","h","a","t"," ","a","r","e"," ","t","h","e"," ","b","e","s","t">>),
     T(<<"w","h","a","t"," ","a","r","e"," ","b","e","s","t"," ","p","r","a","c","t","i","c","e","s">>),
     T(<<"w","h","a","t"," ","i","s"," ","b","e","s","t"," ","p","r","a","c","t","i","c","e">>),
     T(<<"h","o","w"," ","s","h","o","u","l","d"," ","i">>),
     T(<<"h","o","w"," ","s","h","o","u","l","d"," ","w","e">>),
     T(<<"w","h","a","t"," ","i","s"," ","r","e","c","o","m","m","e","n","d","e","d">>),
     T(<<"w","h","a","t","'","s"," ","r","e","c","o","m","m","e","n","d","e","d">>),
     T(<<"w","h","i","c","h"," ","i","s"," ","b","e","t","t","e","r">>),
     T(<<"w","h","i","c","h"," ","a","p","p","r","o","a","c","h">>),
     T(<<"w","h","a","t"," ","a","p","p","r","o","a","c","h">>),
     T(<<"c","o","m","p","a","r","e">>),
     T(<<"r","e","s","e","a","r","c","h">>),
     T(<<"s","h","o","w"," ","m","e"," ","b","e","s","t">>),
     T(<<"f","i","n","d"," ","b","e","s","t">>),
     T(<<"l","o","o","k","u","p">>),
     T(<<"s","e","a","r","c","h"," ","f","o","r">>) >>

(* variant: the patterns are looked for in the prompt as typed *)
shouldPerformResearchAsTyped(userPrompt) ==
  \E k \in 1..Len(researchQuestionPatterns) :
     Includes(userPrompt, researchQuestionPatterns[k])

shouldPerformResearch(userPrompt) ==
  LET lowerPrompt == ToLowerCase(userPrompt)
  IN  \E k \in 1..Len(researchQuestionPatterns) :
        Includes(lowerPrompt, researchQuestionPatterns[k])

(* One search hit as the Brave client returns it; a missing field and an    *)
(* empty one are both the empty string (the code only tests them with ||).  *)
Hit(title, url, description) ==
  [title |-> title, url |-> url, description |-> description]

(* results.map(...) of lines 55-61: the first five, with the placeholders *)
RECURSIVE MapResults(_)
MapResults(rs) ==
  IF rs = <<>> THEN <<>>
  ELSE << Hit(IF rs[1].title # <<>> THEN rs[1].title
                ELSE T(<<"U","n","t","i","t","l","e","d">>),
              rs[1].url,
              rs[1].description) >> \o MapResults(Tail(rs))

SummaryOf(topResult) ==
  CatAll(<< topResult.title, T(<<"\n">>), topResult.description,
            T(<<"\n","S","o","u","r","c","e",":"," ">>), topResult.url >>)

(* variant: every result is returned for display *)
ResearchDataOfAllShown(query, allResults) ==
  [ query          |-> query,
    results        |-> allResults,
    allResults     |-> allResults,
    totalAvailable |-> Len(allResults),
    summary        |-> SummaryOf(allResults[1]) ]

ResearchDataOf(query, allResults) ==
  [ query          |-> query,
    results        |-> <<allResults[1]>>,
    allResults     |-> allResults,
    totalAvailable |-> Len(allResults),
    summary        |-> SummaryOf(allResults[1]) ]

(* performResearch(query).  apiKey: BRAVE_SEARCH_API_KEY is configured.     *)
(* reply: what client.webSearch does, [kind, results] with kind one of      *)
(*   "throws"   the call rejects                                             *)
(*   "empty"    it resolves to nothing, or to a value without web.results    *)
(*   "results"  it resolves with web.results = results                       *)
(* Returns [called, value]: whether webSearch was called, and the           *)
(* ResearchData (Some) or null.  With an empty result list allResults[0] is *)
(* undefined and reading topResult.title throws inside the try: null.       *)
performResearch(query, apiKey, reply) ==
  IF ~apiKey THEN [called |-> FALSE, value |-> Null]
  ELSE IF reply.kind # "results" THEN [called |-> TRUE, value |-> Null]
  ELSE LET allResults == MapResults(SubSeq(reply.results, 1, Min(5, Len(reply.results))))
       IN  IF allResults = <<>> THEN [called |-> TRUE, value |-> Null]
           ELSE [called |-> TRUE, value |-> Some(ResearchDataOf(query, allResults))]

-----------------------------------------------------------------------------
(* server/storage.ts (MongoDBStorage)                                       *)

(* connect(): db is whether this.db is set; ok is what client.connect does  *)
connect(db, okConnect) ==
  IF db THEN [throws |-> FALSE, db |-> TRUE]
  ELSE IF okConnect THEN [throws |-> FALSE, db |-> TRUE]
  ELSE [throws |-> TRUE, db |-> FALSE]

(* the collection is kept in insertion order *)
RECURSIVE Reverse(_)
Reverse(s) == IF s = <<>> THEN <<>> ELSE Reverse(Tail(s)) \o <<s[1]>>

(* find({}).sort({timestamp: -1}): the orders the driver may return, most   *)
(* recent first; documents of equal timestamp come in any order             *)
SortedRecent(coll) ==
  LET n == Len(coll)
  IN  { [i \in 1..n |-> coll[q[i]]] :
          q \in { f \in [1..n -> 1..n] :
                    /\ \A i, j \in 1..n : i # j => f[i] # f[j]
                    /\ \A i, j \in 1..n :
                          i < j => coll[f[i]].timestamp >= coll[f[j]].timestamp } }

(* getRecentCommands(limit).  d: the driver's behaviour in this call,       *)
(* [connect, aggregate, find] each TRUE when that driver call succeeds.     *)
(* sorted: what find({}).sort({timestamp: -1}) yields, one of SortedRecent  *)
getRecentCommands(db, sorted, limit, d) ==
  LET c == connect(db, d.connect)
  IN  IF c.throws THEN [throws |-> TRUE, db |-> c.db, value |-> <<>>]
      ELSE IF ~d.find THEN [throws |-> TRUE, db |-> c.db, value |-> <<>>]
      ELSE [throws |-> FALSE, db |-> c.db,
            value |-> SubSeq(sorted, 1, Min(limit, Len(sorted)))]

(* searchCommands(query, limit).  hits: what the $search stage matches, in  *)
(* relevance order.  A failing aggregate falls back to getRecentCommands    *)
(* inside the method; a failing connect is outside its try and rejects.     *)
(* variant: on a connection that was left open the search repeats what it   *)
(* found (a result kept between invocations)                                *)
searchCommandsRemembering(db, sorted, limit, d, hits) ==
  LET c == connect(db, d.connect)
      found == SubSeq(hits, 1, Min(limit, Len(hits)))
  IN  IF c.throws THEN [throws |-> TRUE, db |-> c.db, value |-> <<>>]
      ELSE IF d.aggregate
           THEN [throws |-> FALSE, db |-> c.db,
                 value |-> IF db THEN found \o found ELSE found]
      ELSE getRecentCommands(c.db, sorted, limit, d)

searchCommands(db, sorted, limit, d, hits) ==
  LET c == connect(db, d.connect)
  IN  IF c.throws THEN [throws |-> TRUE, db |-> c.db, value |-> <<>>]
      ELSE IF d.aggregate
           THEN [throws |-> FALSE, db |-> c.db,
                 value |-> SubSeq(hits, 1, Min(limit, Len(hits)))]
      ELSE getRecentCommands(c.db, sorted, limit, d)

-----------------------------------------------------------------------------
(* server/routes.ts: helpers                                                *)

(* Math.ceil(text.length / 4) *)
(* variant: the estimate rounded down *)
estimateTokenCountFloor(text) == TextLen(text) \div 4

estimateTokenCount(text) == (TextLen(text) + 3) \div 4

IsSentenceEnd(c) == c \in {".", "!", "?"}

RECURSIVE SkipSpaces(_, _)
SkipSpaces(t, i) == IF i <= Len(t) /\ IsSpace(t[i].c) THEN SkipSpaces(t, i + 1) ELSE i

(* message.split(/[.!?]\s+/): a separator is one of . ! ? directly followed *)
(* by white space, together with all of that white space                    *)
RECURSIVE SplitSentences(_, _, _)
SplitSentences(t, i, cur) ==
  IF i > Len(t) THEN <<cur>>
  ELSE IF IsSentenceEnd(t[i].c) /\ i < Len(t) /\ IsSpace(t[i + 1].c)
       THEN <<Cat(cur, Rep(t[i].c, t[i].n - 1))>> \o SplitSentences(t, SkipSpaces(t, i + 1), <<>>)
       ELSE SplitSentences(t, i + 1, Cat(cur, <<t[i]>>))

(* variant: the loop without its break *)
RECURSIVE AccumulateAll(_, _, _)
AccumulateAll(sentences, summary, maxLength) ==
  IF sentences = <<>> THEN summary
  ELSE AccumulateAll(Tail(sentences),
                     CatAll(<<summary, sentences[1], T(<<".", " ">>)>>), maxLength)

(* lines 136-139 *)
RECURSIVE Accumulate(_, _, _)
Accumulate(sentences, summary, maxLength) ==
  IF sentences = <<>> THEN summary
  ELSE IF TextLen(summary) + TextLen(sentences[1]) > maxLength - 20 THEN summary
  ELSE Accumulate(Tail(sentences),
                  CatAll(<<summary, sentences[1], T(<<".", " ">>)>>), maxLength)

summarizeResponse(message, maxLength) ==
  IF TextLen(message) <= maxLength THEN message
  ELSE LET sentences == SelectSeq(SplitSentences(message, 1, <<>>),
                                  LAMBDA s : TextLen(s) > 20)
           summary   == Trim(Accumulate(sentences, <<>>, maxLength))
       IN  IF summary # <<>> THEN summary
           ELSE Cat(Substring(message, 0, maxLength), T(<<".", ".", ".">>))

-----------------------------------------------------------------------------
(* server/minimax-tts.ts                                                    *)

(* variant: a sentence end at 70% of the budget is already accepted *)
truncateTextForTTSFromSeventy(text, maxChars) ==
  IF TextLen(text) <= maxChars THEN text
  ELSE LET truncated       == Substring(text, 0, maxChars)
           lastSentenceEnd == Max(LastIndexOf(truncated, "."),
                                  Max(LastIndexOf(truncated, "!"), LastIndexOf(truncated, "?")))
       IN  IF 10 * lastSentenceEnd >= 7 * maxChars
           THEN Substring(text, 0, lastSentenceEnd + 1)
           ELSE Cat(truncated, T(<<".", ".", ".">>))

truncateTextForTTS(text, maxChars) ==
  IF TextLen(text) <= maxChars THEN text
  ELSE LET truncated       == Substring(text, 0, maxChars)
           lastPeriod      == LastIndexOf(truncated, ".")
           lastExclamation == LastIndexOf(truncated, "!")
           lastQuestion    == LastIndexOf(truncated, "?")
           lastSentenceEnd == Max(lastPeriod, Max(lastExclamation, lastQuestion))
       IN  IF 10 * lastSentenceEnd > 7 * maxChars
           THEN Substring(text, 0, lastSentenceEnd + 1)
           ELSE Cat(truncated, T(<<".", ".", ".">>))

HexDigits == {"0","1","2","3","4","5","6","7","8","9","a","b","c","d","e","f"}

(* Buffer.from(audioHex, 'hex'): one byte per pair of hex digits, stopping  *)
(* at the first pair that is not hexadecimal (an odd last digit is dropped).*)
(* hex is a sequence of characters; the result is the sequence of pairs.    *)
RECURSIVE BufferFromHex(_)
BufferFromHex(hex) ==
  IF Len(hex) < 2 THEN <<>>
  ELSE IF hex[1] \in HexDigits /\ hex[2] \in HexDigits
       THEN <<SubSeq(hex, 1, 2)>> \o BufferFromHex(SubSeq(hex, 3, Len(hex)))
       ELSE <<>>

(* audioBuffer.toString('base64'): four units for every three bytes         *)
Base64(buffer) == Lit("#base64", 4 * ((Len(buffer) + 2) \div 3))

(* generateSpeech(options).  apiKey, groupId: MINIMAX_API_KEY and           *)
(* MINIMAX_GROUP_ID are configured.  reply: what the provider does,         *)
(* [kind, hex] with kind one of                                             *)
(*   "throws"    fetch rejects (network error)                              *)
(*   "notOk"     a response with response.ok false                          *)
(*   "badJson"   response.json() rejects (the body is not JSON)             *)
(*   "apiError"  base_resp.status_code is not 0                             *)
(*   "noAudio"   none of data.audio, audio, extra_info.audio_file is set    *)
(*   "audio"     one of them is the non-empty string hex                    *)
(* Returns [called, value]: whether fetch was called and the Buffer (Some)  *)
(* or null.                                                                 *)
generateSpeech(text, voiceId, apiKey, groupId, reply) ==
  IF ~apiKey \/ ~groupId THEN [called |-> FALSE, value |-> Null]
  ELSE IF reply.kind \in {"throws", "notOk", "badJson", "apiError", "noAudio"}
       THEN [called |-> TRUE, value |-> Null]
  ELSE [called |-> TRUE, value |-> Some(BufferFromHex(reply.hex))]

-----------------------------------------------------------------------------
(* Agent roles and the prompt tables of server/routes.ts                    *)

architect == T(<<"a","r","c","h","i","t","e","c","t">>)

backend == T(<<"b","a","c","k","e","n","d">>)

frontend == T(<<"f","r","o","n","t","e","n","d">>)

qa == T(<<"q","a">>)

AgentRoles == {architect, backend, frontend, qa}

(* Names every JavaScript object inherits from Object.prototype: for these  *)
(* obj[name] is a function, hence truthy, on any object literal.            *)
toStringKey == T(<<"t","o","S","t","r","i","n","g">>)

constructorKey == T(<<"c","o","n","s","t","r","u","c","t","o","r">>)

(* the text of `${Object.prototype[name]}` *)
InheritedText(name) ==
  CASE name = toStringKey    -> Some(Lit("#function toString() { [native code] }", 37))
    [] name = constructorKey -> Some(Lit("#function Object() { [native code] }", 35))
    [] OTHER                 -> Null

(* AGENT_PROMPTS[agentRole]: Some(text) when the lookup is truthy, else Null *)
AGENT_PROMPTS(agentRole) ==
  CASE agentRole = architect -> Some(Lit("#AGENT_PROMPTS.architect", 869))
    [] agentRole = backend   -> Some(Lit("#AGENT_PROMPTS.backend", 868))
    [] agentRole = frontend  -> Some(Lit("#AGENT_PROMPTS.frontend", 926))
    [] agentRole = qa        -> Some(Lit("#AGENT_PROMPTS.qa", 921))
    [] OTHER                 -> InheritedText(agentRole)

DEMO_AGENT_PROMPTS(agentRole) ==
  CASE agentRole = architect -> Some(Lit("#DEMO_AGENT_PROMPTS.architect", 268))
    [] agentRole = backend   -> Some(Lit("#DEMO_AGENT_PROMPTS.backend", 243))
    [] agentRole = frontend  -> Some(Lit("#DEMO_AGENT_PROMPTS.frontend", 232))
    [] agentRole = qa        -> Some(Lit("#DEMO_AGENT_PROMPTS.qa", 188))
    [] OTHER                 -> InheritedText(agentRole)

(* AGENT_VOICES[agentRole] || AGENT_VOICES.architect, as its voiceId with   *)
(* the default of generateSpeech (an inherited property has no voiceId)     *)
AGENT_VOICES(agentRole) ==
  CASE agentRole = frontend -> "female-shaonv"
    [] agentRole = qa       -> "male-qn-jingying"
    [] OTHER                -> "male-qn-qingse"

(* generateAgentSpeech(agentRole, text) *)
generateAgentSpeech(agentRole, text, apiKey, groupId, reply) ==
  LET voiceId       == AGENT_VOICES(agentRole)
      truncatedText == truncateTextForTTS(text, 1000)
      r             == generateSpeech(truncatedText, voiceId, apiKey, groupId, reply)
  IN  [called |-> r.called, text |-> truncatedText, voiceId |-> voiceId, value |-> r.value]

(* getMockResearchData(query) *)
getMockResearchData(query) ==
  LET allMockResults ==
        << Hit(Lit("#Best Practices for Modern Authentication", 40),
               Lit("#https://auth0.com/docs/best-practices", 37),
               Lit("#Comprehensive guide covering OAuth 2.0 ...", 122)),
           Hit(Lit("#OAuth 2.0 Implementation Guide - MDN", 36),
               Lit("#https://developer.mozilla.org/en-US/docs/Web/Security/OAuth", 59),
               Lit("#Mozilla's complete walkthrough ...", 125)),
           Hit(Lit("#JWT Authentication Tutorial", 27),
               Lit("#https://jwt.io/introduction", 27),
               Lit("#Learn how to implement JSON Web Tokens ...", 108)) >>
  IN  ResearchDataOf(query, allMockResults)

-----------------------------------------------------------------------------
(* server/routes.ts: POST /api/agents/discuss                               *)

VARIABLES
  env,         \* process environment, read once at module load
  storageDb,   \* MongoDBStorage.db is set (the connection is memoised)
  collection,  \* the commands collection, in insertion order
  pc,          \* where the handler of the request in progress is suspended
  req,         \* req.body
  loc,         \* the handler's local variables
  res,         \* the response sent
  calls        \* the calls to collaborators made for this request, in order

srvVars == <<env, storageDb, collection, pc, req, loc, res, calls>>

(* client/src/pages/home.tsx: the state of the Home component *)
VARIABLES
  ui,            \* the useState values of Home that the pipeline reads or writes
  turn,          \* the invocation of handleTranscript in progress, its locals
  requests,      \* the requests to /api/agents/discuss issued by that invocation
  clock,         \* Date.now(), advancing by one per invocation
  switchedOnFor  \* the research data on display each time the switch was set on

cliVars == <<ui, turn, requests, clock, switchedOnFor>>

(* One evaluation of a helper function on its own.                          *)
VARIABLES
  call,          \* the function applied and its arguments
  returned       \* Null until it has returned, then Some(value)

fnVars == <<call, returned>>

(* The command routes of the server (/api/commands...).                     *)
VARIABLES
  now,           \* the server's clock, in milliseconds
  api            \* the last call of a command route and its response

apiVars == <<now, api>>

(* The VoiceInput component (speech recognition of the browser).            *)
VARIABLES
  voice          \* the refs and state of VoiceInput and the recognizer's state
voiceVars == <<voice>>

(* what the actions of one part leave alone *)
notSrv == <<cliVars, fnVars, apiVars, voiceVars>>

notCli == <<srvVars, fnVars, apiVars, voiceVars>>

notFn == <<srvVars, cliVars, apiVars, voiceVars>>
notVoice == <<srvVars, cliVars, fnVars, apiVars>>

(* `User request: "${transcript}"\n\n` and the history block, lines 216-230 *)
RECURSIVE HistoryLines(_, _)
HistoryLines(cmds, idx) ==
  IF cmds = <<>> THEN <<>>
  ELSE LET cmd  == cmds[1]
           head == CatAll(<< NumText(idx + 1), T(<<".", " ", "\"">>), cmd.transcript,
                             T(<<"\"", " ", "(">>), Lit("#toLocaleString", 22),
                             T(<<")", "\n">>) >>)
           last == IF Len(cmd.agentResponses) > 0
                   THEN CatAll(<< Lit("#   Last response: ", 18),
                                  summarizeResponse(
                                    cmd.agentResponses[Len(cmd.agentResponses)].message, 150),
                                  T(<<"\n">>) >>)
                   ELSE <<>>
       IN  Cat(Cat(head, last), HistoryLines(Tail(cmds), idx + 1))

HistoryBlock(commandHistory) ==
  IF Len(commandHistory) > 0
  THEN CatAll(<< Lit("#RELEVANT COMMAND HISTORY (found via search):", 49),
                 HistoryLines(SubSeq(commandHistory, 1, Min(3, Len(commandHistory))), 0),
                 Lit("#These are similar commands from the past ...", 124) >>)
  ELSE <<>>

(* variant: only research performed in this request reaches the prompt *)
ResearchBlockFresh(researchData, previousResearch) ==
  IF researchData # Null
  THEN CatAll(<< Lit("#RESEARCH FINDINGS (Brave Search):", 38),
                 researchData[1].summary, T(<<"\n", "\n">>),
                 Lit("#Use these research findings to inform ...", 75) >>)
  ELSE <<>>

(* lines 232-241; researchData and previousResearch are Null or Some(data) *)
ResearchBlock(researchData, previousResearch) ==
  LET activeResearch == IF researchData # Null THEN researchData ELSE previousResearch
  IN  IF activeResearch # Null
      THEN CatAll(<< Lit("#RESEARCH FINDINGS (Brave Search):", 38),
                     activeResearch[1].summary, T(<<"\n", "\n">>),
                     IF previousResearch # Null
                     THEN Lit("#The user has reviewed these research findings ...", 108)
                     ELSE <<>>,
                     Lit("#Use these research findings to inform ...", 75) >>)
      ELSE <<>>

(* lines 243-251 *)
RECURSIVE ContextLines(_)
ContextLines(context) ==
  IF context = <<>> THEN <<>>
  ELSE Cat(CatAll(<< T(<<"-", " ">>), context[1].role, T(<<":", " ">>),
                     summarizeResponse(context[1].message, 250), T(<<"\n">>) >>),
           ContextLines(Tail(context)))

ContextBlock(context) ==
  IF Len(context) > 0
  THEN CatAll(<< Lit("#Previous agent summaries:", 26), ContextLines(context), T(<<"\n">>) >>)
  ELSE <<>>

(* lines 216-257: the text passed to the model as contents *)
BuildFullPrompt(body, commandHistory, researchData) ==
  LET transcript   == body.transcript[1]
      agentRole    == body.agentRole[1]
      prompt       == CatAll(<< Lit("#User request: ", 14), T(<<"\"">>), transcript,
                                T(<<"\"", "\n", "\n">>),
                                HistoryBlock(commandHistory),
                                ResearchBlock(researchData, body.previousResearch),
                                ContextBlock(body.context) >>)
      promptMap    == IF body.demoMode THEN DEMO_AGENT_PROMPTS(agentRole)
                                       ELSE AGENT_PROMPTS(agentRole)
      systemPrompt == promptMap[1]
  IN  CatAll(<< systemPrompt, T(<<"\n", "\n">>), prompt, T(<<"\n", "\n">>),
                Lit("#As the ", 7), agentRole, Lit("# agent, provide your ", 21),
                IF body.demoMode THEN Lit("#concise", 7) ELSE Lit("#detailed", 8),
                Lit("# analysis and recommendations.", 30) >>)

(* lines 264-267 *)
maxModelTokens(demoMode) == IF demoMode THEN 8192 ELSE 1000000

maxOutputTokens(demoMode) == IF demoMode THEN 1500 ELSE 8192

(* variant: the allocation without its floor *)
safeOutputTokensNoFloor(demoMode, promptTokens) ==
  Min(maxOutputTokens(demoMode), maxOutputTokens(demoMode) - Min(promptTokens, 10000))

safeOutputTokens(demoMode, promptTokens) ==
  Min(maxOutputTokens(demoMode),
      Max(IF demoMode THEN 1500 ELSE 2000,
          maxOutputTokens(demoMode) - Min(promptTokens, 10000)))

(* variant: the complexity warnings are tested before the truncation *)
WarningOfComplexFirst(agentRole, demoMode, promptTokens, wasTruncated) ==
  IF ~demoMode /\ promptTokens > 100000
  THEN Some(CatAll(<< Lit("#Your request is extremely complex (", 35),
                      NumText(promptTokens \div 1000),
                      Lit("#K tokens). With Gemini 3 Pro's 1M context window ...", 128) >>))
  ELSE IF demoMode /\ 10 * promptTokens > 7 * maxModelTokens(demoMode)
  THEN Some(Lit("#Your request is complex. Demo mode uses a faster model ...", 143))
  ELSE IF wasTruncated
  THEN Some(CatAll(<< Lit("#The ", 4), agentRole,
                      Lit("# agent's response was truncated ...", 127) >>))
  ELSE Null

(* lines 311-320: Null when warning stays undefined.  promptTokens >        *)
(* maxModelTokens * 0.7 is compared exactly, as 10 * promptTokens > 7 * max *)
WarningOf(agentRole, demoMode, promptTokens, wasTruncated) ==
  IF wasTruncated
  THEN Some(CatAll(<< Lit("#The ", 4), agentRole,
                      Lit("# agent's response was truncated ...", 127) >>))
  ELSE IF ~demoMode /\ promptTokens > 100000
  THEN Some(CatAll(<< Lit("#Your request is extremely complex (", 35),
                      NumText(promptTokens \div 1000),
                      Lit("#K tokens). With Gemini 3 Pro's 1M context window ...", 128) >>))
  ELSE IF demoMode /\ 10 * promptTokens > 7 * maxModelTokens(demoMode)
  THEN Some(Lit("#Your request is complex. Demo mode uses a faster model ...", 143))
  ELSE Null

NoBody ==
  [transcript |-> Null, agentRole |-> Null, context |-> <<>>, demoMode |-> FALSE,
   previousResearch |-> Null]

NoLocals ==
  [commandHistory |-> <<>>, researchData |-> Null, fullPrompt |-> Null,
   promptTokens |-> 0, safeOutputTokens |-> 0, message |-> <<>>,
   warning |-> Null, wasTruncated |-> FALSE, finishReason |-> Null,
   audioBuffer |-> Null, error |-> Null]

(* A response: status 0 while none has been sent.  A key the JSON body does *)
(* not carry, or carries as null, is Null; a present value v is Some(v).    *)
NoResponse ==
  [status |-> 0, message |-> Null, warning |-> Null, truncated |-> Null,
   researchData |-> Null, audioData |-> Null, tokenInfo |-> Null,
   error |-> Null, details |-> Null]

(* !value for a string field of the body: undefined, null or "" *)
Falsy(field) == field = Null \/ field = Some(<<>>)

(* ---- the bounded inputs of the handler -------------------------------- *)

T_Build == T(<<"B","u","i","l","d"," ","a"," ","t","o","d","o"," ","l","i","s","t"," ","a","p","p">>)

T_Ask == T(<<"W","h","a","t"," ","i","s"," ","t","h","e"," ","b","e","s","t"," ","a","u","t","h","?">>)

(* a transcript of 400000 units: with it the prompt is estimated above the  *)
(* 100000 tokens of the production warning and above the demo model's      *)
(* context window                                                           *)
T_Huge == Rep("x", 400000)

tester == T(<<"t","e","s","t","e","r">>)

M_Architect == T(<<"U","s","e"," ","J","W","T",".">>)

H_Jwt == Hit(T(<<"J","W","T">>), T(<<"j","w","t",".","i","o">>), T(<<"T","o","k","e","n","s">>))

H_Bare == Hit(<<>>, <<>>, <<>>)

(* research data a client holds from an earlier research-only response *)
R_Prev == ResearchDataOf(T_Ask, <<Hit(T(<<"O","I","D","C">>), T(<<"o","i","d","c">>), T(<<"F","l","o","w","s">>))>>)

Cmd_Old ==
  [transcript |-> T_Build, timestamp |-> 1,
   agentResponses |-> <<[role |-> architect, message |-> M_Architect]>>]

Bodies ==
  [ transcript       : {Null, Some(<<>>), Some(T_Build), Some(T_Ask), Some(T_Huge)},
    agentRole        : {Null, Some(<<>>), Some(architect), Some(backend), Some(frontend),
                        Some(qa), Some(tester), Some(toStringKey)},
    context          : {<<>>, <<[role |-> T(<<"A","r","c","h","i","t","e","c","t">>),
                                 message |-> M_Architect]>>},
    demoMode         : BOOLEAN,
    previousResearch : {Null, Some(R_Prev)} ]

Envs ==
  [ MOCK_BRAVE_SEARCH : BOOLEAN, BRAVE_SEARCH_API_KEY : BOOLEAN,
    MINIMAX_API_KEY : BOOLEAN, MINIMAX_GROUP_ID : BOOLEAN ]

DriverReplies == [connect : BOOLEAN, aggregate : BOOLEAN, find : BOOLEAN]

WebSearchReplies ==
  {[kind |-> "throws", results |-> <<>>], [kind |-> "empty", results |-> <<>>]}
  \cup [kind : {"results"}, results : {<<>>, <<H_Jwt>>, <<H_Bare, H_Jwt>>}]

ModelErrors == {Lit("#429 quota exceeded", 18), Lit("#fetch failed", 12)}

ModelReplies ==
  [throws : {TRUE}, message : ModelErrors, text : {Null}, finishReason : {Null}]
  \cup [throws : {FALSE}, message : {<<>>}, text : {Some(M_Architect)},
        finishReason : {Some("STOP"), Some("MAX_TOKENS")}]
  \cup {[throws |-> FALSE, message |-> <<>>, text |-> Null, finishReason |-> Null],
         [throws |-> FALSE, message |-> <<>>, text |-> Some(T(<<" ", "\n">>)),
          finishReason |-> Some("STOP")]}

TtsReplies ==
  [kind : {"throws", "notOk", "badJson", "apiError", "noAudio"}, hex : {<<>>}]
  \cup [kind : {"audio"}, hex : {<<"4","9","4","4">>, <<"z","z">>}]

(* ---- responses --------------------------------------------------------- *)

(* lines 151-153 and 158-160 *)
Respond400(errorText) == [NoResponse EXCEPT !.status = 400, !.error = Some(errorText)]

(* variant: a 500 that does not carry error.message *)
Respond500Bare(errorMessage) ==
  [NoResponse EXCEPT !.status = 500,
                     !.error = Some(Lit("#Failed to generate agent response", 33))]

(* lines 354-360 *)
Respond500(errorMessage) ==
  [NoResponse EXCEPT !.status = 500,
                     !.error = Some(Lit("#Failed to generate agent response", 33)),
                     !.details = Some(errorMessage)]

(* lines 205-212: the research-only response *)
RespondResearch(transcript, researchData) ==
  [NoResponse EXCEPT
     !.status = 200,
     !.message = Some(CatAll(<< Lit("#Research Complete! I found ", 33),
                                NumText(Len(researchData.results)),
                                Lit("# relevant sources for: ", 24), transcript,
                                Lit("# Top Result: ", 15), researchData.results[1].title,
                                T(<<"\n">>), researchData.results[1].description,
                                Lit("# To implement this request, enable Apply Research ...", 78) >>)),
     !.researchData = Some(researchData),
     !.audioData = Null]

(* variant: the result without tokenInfo *)
Respond200NoTokenInfo(l, audioData) ==
  [NoResponse EXCEPT
     !.status = 200,
     !.message = Some(Trim(l.message)),
     !.warning = l.warning,
     !.truncated = Some(l.wasTruncated),
     !.researchData = l.researchData,
     !.audioData = audioData]

(* variant: the result carries the research the prompt used *)
Respond200ActiveResearch(l, audioData) ==
  [NoResponse EXCEPT
     !.status = 200,
     !.message = Some(Trim(l.message)),
     !.warning = l.warning,
     !.truncated = Some(l.wasTruncated),
     !.researchData = IF l.researchData # Null THEN l.researchData ELSE req.previousResearch,
     !.audioData = audioData,
     !.tokenInfo = Some([promptTokens |-> l.promptTokens,
                         allocatedOutputTokens |-> l.safeOutputTokens,
                         finishReason |-> l.finishReason])]

(* lines 342-353 *)
Respond200(l, audioData) ==
  [NoResponse EXCEPT
     !.status = 200,
     !.message = Some(Trim(l.message)),
     !.warning = l.warning,
     !.truncated = Some(l.wasTruncated),
     !.researchData = l.researchData,
     !.audioData = audioData,
     !.tokenInfo = Some([promptTokens |-> l.promptTokens,
                         allocatedOutputTokens |-> l.safeOutputTokens,
                         finishReason |-> l.finishReason])]

(* ---- the handler, one action per stretch between two awaits ------------ *)

(* lines 215-287: assemble the prompt, budget the tokens, call the model *)
StartModel(commandHistory, researchData) ==
  LET fullPrompt   == BuildFullPrompt(req, commandHistory, researchData)
      promptTokens == estimateTokenCount(fullPrompt)
  IN  /\ loc' = [loc EXCEPT !.commandHistory = commandHistory,
                            !.researchData = researchData,
                            !.fullPrompt = Some(fullPrompt),
                            !.promptTokens = promptTokens,
                            !.safeOutputTokens = safeOutputTokens(req.demoMode, promptTokens)]
      /\ pc' = "generateContent"
      /\ res' = res

(* variant: fresh research flows straight into the model call *)
ShortCircuitGoesOn(commandHistory, researchData) ==
  StartModel(commandHistory, researchData)

(* lines 203-212: research was just performed: answer with it alone *)
ShortCircuit(commandHistory, researchData) ==
  /\ loc' = [loc EXCEPT !.commandHistory = commandHistory, !.researchData = researchData]
  /\ res' = RespondResearch(req.transcript[1], researchData[1])
  /\ pc' = "responded"

(* variant: the gate without the role test *)
ResearchGateAnyRole(body) ==
  /\ body.previousResearch = Null
  /\ shouldPerformResearch(body.transcript[1])

(* line 182 *)
ResearchGate(body) ==
  /\ body.agentRole[1] = architect
  /\ body.previousResearch = Null
  /\ shouldPerformResearch(body.transcript[1])

(* lines 179-213, entered with the command history known *)
AfterHistory(commandHistory) ==
  IF ResearchGate(req)
  THEN IF env.MOCK_BRAVE_SEARCH
       THEN /\ calls' = calls \o <<"getMockResearchData">>
            /\ ShortCircuit(commandHistory, Some(getMockResearchData(req.transcript[1])))
       ELSE /\ calls' = calls \o <<"performResearch">>
            /\ loc' = [loc EXCEPT !.commandHistory = commandHistory]
            /\ pc' = "performResearch"
            /\ res' = res
  ELSE /\ calls' = calls \o <<"generateContent">>
       /\ StartModel(commandHistory, Null)

(* lines 146-167: a request arrives; validation; the history search is issued *)
Receive ==
  /\ pc = "idle"
  /\ \E body \in Bodies :
       /\ req' = body
       /\ loc' = NoLocals
       /\ IF Falsy(body.transcript) \/ Falsy(body.agentRole)
          THEN /\ res' = Respond400(Lit("#Missing required fields: transcript and agentRole", 49))
               /\ pc' = "responded"
               /\ calls' = <<>>
          ELSE IF AGENT_PROMPTS(body.agentRole[1]) = Null
          THEN /\ res' = Respond400(Lit("#Invalid agentRole. Must be one of: ...", 71))
               /\ pc' = "responded"
               /\ calls' = <<>>
          ELSE /\ res' = NoResponse
               /\ pc' = "searchCommands"
               /\ calls' = <<"storage.searchCommands">>
  /\ UNCHANGED <<env, storageDb, collection>>
  /\ UNCHANGED notSrv

(* lines 165-177: storage.searchCommands settles *)
HistorySearch ==
  /\ pc = "searchCommands"
  /\ \E r \in {searchCommands(storageDb, sorted, 5, d, hits) :
                  sorted \in SortedRecent(collection), d \in DriverReplies,
                  hits \in {<<>>, Reverse(collection)}} :
           /\ storageDb' = r.db
           /\ IF r.throws
              THEN /\ pc' = "getRecentCommands"
                   /\ calls' = calls \o <<"storage.getRecentCommands">>
                   /\ UNCHANGED <<loc, res>>
              ELSE AfterHistory(r.value)
  /\ UNCHANGED <<env, collection, req>>
  /\ UNCHANGED notSrv

(* variant: a failing fallback reaches the outer catch *)
HistoryFallbackAborts ==
  /\ pc = "getRecentCommands"
  /\ \E r \in {getRecentCommands(storageDb, sorted, 5, d) :
                  sorted \in SortedRecent(collection), d \in DriverReplies} :
           /\ storageDb' = r.db
           /\ IF r.throws
              THEN /\ res' = Respond500(Lit("#connect ECONNREFUSED", 20))
                   /\ pc' = "responded"
                   /\ UNCHANGED <<loc, calls>>
              ELSE AfterHistory(r.value)
  /\ UNCHANGED <<env, collection, req>>
  /\ UNCHANGED notSrv

(* lines 172-176: the fallback storage.getRecentCommands settles *)
HistoryFallback ==
  /\ pc = "getRecentCommands"
  /\ \E r \in {getRecentCommands(storageDb, sorted, 5, d) :
                  sorted \in SortedRecent(collection), d \in DriverReplies} :
           /\ storageDb' = r.db
           /\ AfterHistory(IF r.throws THEN <<>> ELSE r.value)
  /\ UNCHANGED <<env, collection, req>>
  /\ UNCHANGED notSrv

(* variant: a search without data ends the request with an error *)
ResearchReturnAborts ==
  /\ pc = "performResearch"
  /\ \E reply \in WebSearchReplies :
       LET r      == performResearch(req.transcript[1], env.BRAVE_SEARCH_API_KEY, reply)
           called == IF r.called THEN <<"webSearch">> ELSE <<>>
       IN  /\ calls' = calls \o called
           /\ IF r.value # Null
              THEN ShortCircuit(loc.commandHistory, r.value)
              ELSE /\ res' = Respond500(Lit("#Research failed", 15))
                   /\ pc' = "responded"
                   /\ UNCHANGED loc
  /\ UNCHANGED <<env, storageDb, collection, req>>
  /\ UNCHANGED notSrv

(* lines 191-213: performResearch settles *)
ResearchReturn ==
  /\ pc = "performResearch"
  /\ \E reply \in WebSearchReplies :
       LET r      == performResearch(req.transcript[1], env.BRAVE_SEARCH_API_KEY, reply)
           called == IF r.called THEN <<"webSearch">> ELSE <<>>
       IN  IF r.value # Null
           THEN /\ calls' = calls \o called
                /\ ShortCircuit(loc.commandHistory, r.value)
           ELSE /\ calls' = calls \o called \o <<"generateContent">>
                /\ StartModel(loc.commandHistory, Null)
  /\ UNCHANGED <<env, storageDb, collection, req>>
  /\ UNCHANGED notSrv

(* variant: a failed model call is followed by the speech synthesis of its  *)
(* error message                                                            *)
ModelReturnSpeaksError ==
  /\ pc = "generateContent"
  /\ \E reply \in ModelReplies :
       LET message      == IF reply.throws THEN reply.message
                           ELSE IF reply.text # Null /\ reply.text # Some(<<>>)
                           THEN reply.text[1]
                           ELSE Lit("#I apologize, but I couldn't generate a response.", 48)
           wasTruncated == reply.finishReason = Some("MAX_TOKENS")
       IN  /\ loc' = [loc EXCEPT !.message = message,
                                 !.error = IF reply.throws THEN Some(reply.message) ELSE Null,
                                 !.finishReason = reply.finishReason,
                                 !.wasTruncated = wasTruncated,
                                 !.warning = WarningOf(req.agentRole[1], req.demoMode,
                                                       loc.promptTokens, wasTruncated)]
           /\ calls' = calls \o <<"generateAgentSpeech">>
           /\ pc' = "generateAgentSpeech"
           /\ res' = res
  /\ UNCHANGED <<env, storageDb, collection, req>>
  /\ UNCHANGED notSrv

(* lines 280-325 and 354-360: ai.models.generateContent settles *)
ModelReturn ==
  /\ pc = "generateContent"
  /\ \E reply \in ModelReplies :
       IF reply.throws
       THEN /\ loc' = [loc EXCEPT !.error = Some(reply.message)]
            /\ res' = Respond500(reply.message)
            /\ pc' = "responded"
            /\ UNCHANGED calls
       ELSE LET message      == IF reply.text # Null /\ reply.text # Some(<<>>)
                                THEN reply.text[1]
                                ELSE Lit("#I apologize, but I couldn't generate a response.", 48)
                wasTruncated == reply.finishReason = Some("MAX_TOKENS")
            IN  /\ loc' = [loc EXCEPT !.message = message,
                                      !.finishReason = reply.finishReason,
                                      !.wasTruncated = wasTruncated,
                                      !.warning = WarningOf(req.agentRole[1], req.demoMode,
                                                            loc.promptTokens, wasTruncated)]
                /\ calls' = calls \o <<"generateAgentSpeech">>
                /\ pc' = "generateAgentSpeech"
                /\ res' = res
  /\ UNCHANGED <<env, storageDb, collection, req>>
  /\ UNCHANGED notSrv

(* lines 323-353: generateAgentSpeech settles; the response is sent *)
SpeechReturn ==
  /\ pc = "generateAgentSpeech"
  /\ \E reply \in TtsReplies :
       LET r == generateAgentSpeech(req.agentRole[1], loc.message,
                                    env.MINIMAX_API_KEY, env.MINIMAX_GROUP_ID, reply)
           audioData == IF r.value # Null THEN Some(Base64(r.value[1])) ELSE Null
       IN  /\ calls' = calls \o (IF r.called THEN <<"fetch">> ELSE <<>>)
           /\ loc' = [loc EXCEPT !.audioBuffer = r.value]
           /\ res' = Respond200(loc, audioData)
           /\ pc' = "responded"
  /\ UNCHANGED <<env, storageDb, collection, req>>
  /\ UNCHANGED notSrv

(* storage.connect() of an overlapping invocation (another request of this  *)
(* route or of a command route) completes while this one is waiting: the    *)
(* connection is all that invocations share                                 *)
OverlappingConnect ==
  /\ pc \notin {"idle", "responded"}
  /\ ~storageDb
  /\ storageDb' = TRUE
  /\ UNCHANGED <<env, collection, pc, req, loc, res, calls>>
  /\ UNCHANGED notSrv

(* the handler's promise has settled; the server is ready for a request *)
Close ==
  /\ pc = "responded"
  /\ pc' = "idle"
  /\ req' = NoBody
  /\ loc' = NoLocals
  /\ res' = NoResponse
  /\ calls' = <<>>
  /\ UNCHANGED <<env, storageDb, collection>>
  /\ UNCHANGED notSrv

-----------------------------------------------------------------------------
(* client/src/pages/home.tsx: Home                                          *)

(* the most handleTranscript invocations followed in one session *)
MaxTurns == 3

T_Compare == T(<<"c","o","m","p","a","r","e"," ","o","r","m","s">>)

(* what the user can say: two research questions.  The architect request   *)
(* of either may also be answered without research data, as a transcript   *)
(* that is no research question always is                                  *)
Transcripts == {T_Ask, T_Compare}

(* useState of agentStates, lines 248-253; of an AgentState only the status *)
(* is kept                                                                  *)
IdleAgentStates ==
  [architect |-> "idle", backend |-> "idle", frontend |-> "idle", qa |-> "idle"]

CompleteAgentStates ==
  [architect |-> "complete", backend |-> "complete", frontend |-> "complete",
   qa |-> "complete"]

(* the useState initial values, lines 227-237 *)
InitialUi ==
  [ transcript          |-> <<>>,
    isProcessing        |-> FALSE,
    conversations       |-> <<>>,
    activeConversation  |-> Null,
    demoMode            |-> FALSE,
    researchData        |-> Null,
    applyResearchToNext |-> FALSE,
    agentStates         |-> IdleAgentStates ]

(* no invocation of handleTranscript is running; outcome: how the last one  *)
(* ended ("" before the first); posted: how many POST /api/commands it      *)
(* issued; saveStatus: the status of the response to it (0: none yet);      *)
(* saveToast: the toast of its inner catch, lines 617-623                   *)
NoTurn ==
  [ pc |-> "none", text |-> <<>>, context |-> <<>>,
    demoMode |-> FALSE, applyResearchToNext |-> FALSE,
    isFollowUpImplementation |-> FALSE,
    previousResearch |-> Null, architectData |-> Null,
    pending |-> {}, notOk |-> FALSE, outcome |-> "", posted |-> 0,
    saveStatus |-> 0, saveToast |-> Null ]

(* handleToggleChange(enabled), lines 240-245 *)
handleToggleChange(u, enabled) == [u EXCEPT !.applyResearchToNext = enabled]

(* the onNewConversation handler, lines 683-693 *)
onNewConversation(u) ==
  [u EXCEPT !.transcript = <<>>, !.researchData = Null, !.agentStates = IdleAgentStates]

(* conversations.find(c => c.id === conversationId): Null when absent *)
FindConversation(u, conversationId) ==
  LET S == {i \in 1..Len(u.conversations) : u.conversations[i].id = conversationId}
  IN  IF S = {} THEN Null
      ELSE Some(u.conversations[CHOOSE i \in S : \A j \in S : i <= j])

(* handleSelectConversation(conversationId), lines 280-294 *)
handleSelectConversation(u, conversationId) ==
  LET conversation == FindConversation(u, conversationId)
  IN  IF conversation = Null \/ conversation[1].agentStates = Null THEN u
      ELSE [u EXCEPT !.activeConversation = Some(conversationId),
                     !.transcript = conversation[1].command,
                     !.agentStates = conversation[1].agentStates[1],
                     !.researchData = conversation[1].researchData]

(* a VoiceInput is rendered (lines 746-758 and 898-914) and its button is   *)
(* enabled (VoiceInput, handleStart)                                        *)
VoiceInputAvailable(u) ==
  /\ ~u.isProcessing
  /\ u.transcript = <<>> \/ u.agentStates.qa = "complete"

(* the Apply Research switch is rendered, line 771 *)
ToggleRendered(u) == u.researchData # Null

(* lines 347-348 *)
isFollowUpImplementation(u) == u.applyResearchToNext /\ u.researchData # Null

previousResearchOf(u) == IF isFollowUpImplementation(u) THEN u.researchData ELSE Null

(* variant: the frontend request waits for the backend entry *)
DiscussBodyChained(t, agentRole) ==
  [ transcript |-> Some(t.text), agentRole |-> Some(agentRole),
    context |-> IF agentRole = frontend
                THEN t.context \o <<[role |-> T(<<"B","a","c","k","e","n","d">>),
                                     message |-> M_Architect]>>
                ELSE t.context,
    demoMode |-> t.demoMode, previousResearch |-> t.previousResearch ]

(* the body of a fetch to /api/agents/discuss, lines 366-372 and 477-507 *)
DiscussBody(t, agentRole) ==
  [ transcript |-> Some(t.text), agentRole |-> Some(agentRole), context |-> t.context,
    demoMode |-> t.demoMode, previousResearch |-> t.previousResearch ]

(* a request as issued: its body and the roles whose responses this         *)
(* invocation had received by then                                          *)
Issued(t, agentRole, received) ==
  [body |-> DiscussBody(t, agentRole), received |-> received]

(* What the server can answer to the architect request: "rejects" (no       *)
(* response), "notOk" (status 400 or 500), or a 200 whose researchData is   *)
(* the research found, which the handler sends only through its research    *)
(* gate, or null.                                                           *)
ArchitectReplies(body) ==
  {[kind |-> "rejects", researchData |-> Null], [kind |-> "notOk", researchData |-> Null],
   [kind |-> "ok", researchData |-> Null]}
  \cup (IF ResearchGate(body)
        THEN {[kind |-> "ok", researchData |-> Some(getMockResearchData(body.transcript[1]))]}
        ELSE {})

(* the entries handleTranscript pushes on context, lines 380 and 523-524;   *)
(* every agent message is the same short text                               *)
ContextEntry(role) == [role |-> role, message |-> M_Architect]

ArchitectEntry == ContextEntry(T(<<"A","r","c","h","i","t","e","c","t">>))

BackendEntry == ContextEntry(T(<<"B","a","c","k","e","n","d">>))

FrontendEntry == ContextEntry(T(<<"F","r","o","n","t","e","n","d">>))

(* variant: the Frontend entry is pushed first *)
PushTeamEntriesFrontendFirst(context) == context \o <<FrontendEntry, BackendEntry>>

(* lines 523-524: both pushes follow the Promise.all of the three responses *)
PushTeamEntries(context) == context \o <<BackendEntry, FrontendEntry>>

(* variant: every return of handleTranscript posts the command *)
EndOfTurnPosting(t, outcome) ==
  [NoTurn EXCEPT !.outcome = outcome, !.posted = t.posted + 1]

(* handleTranscript returns: its locals are gone, what it did is kept *)
EndOfTurn(t, outcome) == [NoTurn EXCEPT !.outcome = outcome, !.posted = t.posted]

(* variant: the catch block without the finally block *)
CatchWithoutFinally ==
  /\ ui' = [ui EXCEPT
              !.conversations = << [id |-> clock, command |-> turn.text, status |-> "failed",
                                    agentStates |-> Null, researchData |-> Null] >> \o @,
              !.agentStates = IdleAgentStates,
              !.applyResearchToNext = IF turn.applyResearchToNext THEN FALSE ELSE @]
  /\ turn' = EndOfTurn(turn, "failed")
  /\ UNCHANGED <<requests, clock, switchedOnFor>>

(* variant: the catch block also discards the stored research *)
CatchForgetsResearch ==
  /\ ui' = [ui EXCEPT
              !.conversations = << [id |-> clock, command |-> turn.text, status |-> "failed",
                                    agentStates |-> Null, researchData |-> Null] >> \o @,
              !.agentStates = IdleAgentStates,
              !.researchData = Null,
              !.applyResearchToNext = IF turn.applyResearchToNext THEN FALSE ELSE @,
              !.isProcessing = FALSE]
  /\ turn' = EndOfTurn(turn, "failed")
  /\ UNCHANGED <<requests, clock, switchedOnFor>>

(* the catch and finally blocks of handleTranscript, lines 641-667 *)
Catch ==
  /\ ui' = [ui EXCEPT
              !.conversations = << [id |-> clock, command |-> turn.text, status |-> "failed",
                                    agentStates |-> Null, researchData |-> Null] >> \o @,
              !.agentStates = IdleAgentStates,
              !.applyResearchToNext = IF turn.applyResearchToNext THEN FALSE ELSE @,
              !.isProcessing = FALSE]
  /\ turn' = EndOfTurn(turn, "failed")
  /\ UNCHANGED <<requests, clock, switchedOnFor>>

(* lines 338-373: a VoiceInput delivers a transcript; the state values are   *)
(* those of the render the handler belongs to; the architect request is sent *)
HandleTranscript ==
  /\ turn.pc = "none"
  /\ VoiceInputAvailable(ui)
  /\ clock < MaxTurns
  /\ \E text \in Transcripts :
       LET t == [NoTurn EXCEPT !.pc = "architect",
                               !.text = text,
                               !.demoMode = ui.demoMode,
                               !.applyResearchToNext = ui.applyResearchToNext,
                               !.isFollowUpImplementation = isFollowUpImplementation(ui),
                               !.previousResearch = previousResearchOf(ui)]
       IN  /\ turn' = t
           /\ requests' = <<Issued(t, architect, {})>>
           /\ ui' = [ui EXCEPT !.transcript = text, !.isProcessing = TRUE,
                               !.agentStates.architect = "thinking"]
  /\ clock' = clock + 1
  /\ UNCHANGED switchedOnFor
  /\ UNCHANGED notCli

(* lines 375-508: the architect response arrives; research-only return, or  *)
(* the backend, frontend and qa requests are sent together                  *)
ArchitectSettles ==
  /\ turn.pc = "architect"
  /\ \E reply \in ArchitectReplies(requests[1].body) :
       IF reply.kind # "ok" THEN Catch
       ELSE IF reply.researchData # Null /\ ~turn.isFollowUpImplementation
       THEN /\ ui' = [ui EXCEPT !.researchData = reply.researchData,
                                !.agentStates.architect = "complete",
                                !.isProcessing = FALSE]
            /\ turn' = EndOfTurn(turn, "researchOnly")
            /\ UNCHANGED <<requests, clock, switchedOnFor>>
       ELSE LET t == [turn EXCEPT !.pc = "team",
                                  !.context = <<ArchitectEntry>>,
                                  !.architectData = Some(reply),
                                  !.pending = {backend, frontend, qa}]
            IN  /\ turn' = t
                /\ ui' = [ui EXCEPT
                            !.researchData = IF reply.researchData # Null
                                             THEN reply.researchData ELSE @,
                            !.agentStates = [@ EXCEPT !.architect = "complete",
                                                      !.backend = "thinking",
                                                      !.frontend = "thinking",
                                                      !.qa = "thinking"]]
                /\ requests' = requests \o << Issued(t, backend, {architect}),
                                              Issued(t, frontend, {architect}),
                                              Issued(t, qa, {architect}) >>
                /\ UNCHANGED <<clock, switchedOnFor>>
  /\ UNCHANGED notCli

(* lines 474-603: one of the three responses of the Promise.all arrives;    *)
(* with the last one the statuses are checked, context is extended, the     *)
(* cards are completed, the conversation is stored, POST /api/commands sent *)
TeamSettles ==
  /\ turn.pc = "team"
  /\ \E role \in turn.pending, kind \in {"ok", "notOk", "rejects"} :
       LET pending == turn.pending \ {role}
           notOk   == turn.notOk \/ kind = "notOk"
       IN  IF kind = "rejects" THEN Catch
           ELSE IF pending # {}
           THEN /\ turn' = [turn EXCEPT !.pending = pending, !.notOk = notOk]
                /\ UNCHANGED <<ui, requests, clock, switchedOnFor>>
           ELSE IF notOk THEN Catch
           ELSE /\ turn' = [turn EXCEPT !.pc = "saveCommand",
                                        !.pending = {},
                                        !.posted = @ + 1,
                                        !.context = PushTeamEntries(@)]
                /\ ui' = [ui EXCEPT
                            !.agentStates = [@ EXCEPT !.backend = "complete",
                                                      !.frontend = "complete",
                                                      !.qa = "complete"],
                            !.conversations =
                               << [id |-> clock, command |-> turn.text,
                                   status |-> "completed",
                                   agentStates |-> Some(CompleteAgentStates),
                                   researchData |-> turn.architectData[1].researchData] >>
                               \o @,
                            !.activeConversation = Some(clock)]
                /\ UNCHANGED <<requests, clock, switchedOnFor>>
  /\ UNCHANGED notCli

(* variant: the inner catch raises no toast *)
SaveDoneSilent(ok) ==
  /\ ui' = [ui EXCEPT
              !.researchData = IF turn.isFollowUpImplementation THEN Null ELSE @,
              !.applyResearchToNext =
                 IF turn.isFollowUpImplementation \/ turn.applyResearchToNext
                 THEN FALSE ELSE @,
              !.isProcessing = FALSE]
  /\ turn' = [EndOfTurn(turn, "completed") EXCEPT
                !.saveStatus = IF ok THEN 200 ELSE 500]
  /\ UNCHANGED <<requests, clock, switchedOnFor>>

(* variant: the research survives the follow-up that applied it *)
SaveDoneKeepsResearch(ok) ==
  /\ ui' = [ui EXCEPT
              !.applyResearchToNext =
                 IF turn.isFollowUpImplementation \/ turn.applyResearchToNext
                 THEN FALSE ELSE @,
              !.isProcessing = FALSE]
  /\ turn' = [EndOfTurn(turn, "completed") EXCEPT
                !.saveStatus = IF ok THEN 200 ELSE 500,
                !.saveToast = IF ok THEN Null
                              ELSE Some(Lit("#Failed to save command", 22))]
  /\ UNCHANGED <<requests, clock, switchedOnFor>>

(* lines 605-667: POST /api/commands has settled, ok or not (apiRequest     *)
(* throws on a status that is not 2xx into the inner catch, which only      *)
(* raises a toast); the research and the switch are cleared according to    *)
(* the values the invocation started with; finally                          *)
SaveDone(ok) ==
  /\ ui' = [ui EXCEPT
              !.researchData = IF turn.isFollowUpImplementation THEN Null ELSE @,
              !.applyResearchToNext =
                 IF turn.isFollowUpImplementation \/ turn.applyResearchToNext
                 THEN FALSE ELSE @,
              !.isProcessing = FALSE]
  /\ turn' = [EndOfTurn(turn, "completed") EXCEPT
                !.saveStatus = IF ok THEN 200 ELSE 500,
                !.saveToast = IF ok THEN Null
                              ELSE Some(Lit("#Failed to save command", 22))]
  /\ UNCHANGED <<requests, clock, switchedOnFor>>

(* POST /api/commands settles: the server stored the command, or it did not *)
SaveSettles ==
  /\ turn.pc = "saveCommand"
  /\ \E ok \in BOOLEAN : SaveDone(ok)
  /\ UNCHANGED notCli

(* the user flips the Apply Research switch (onCheckedChange) *)
ToggleChange ==
  /\ ToggleRendered(ui)
  /\ LET enabled == ~ui.applyResearchToNext
     IN  /\ ui' = handleToggleChange(ui, enabled)
         /\ switchedOnFor' = IF enabled THEN switchedOnFor \cup {ui.researchData[1]}
                             ELSE switchedOnFor
  /\ UNCHANGED <<turn, requests, clock>>
  /\ UNCHANGED notCli

(* the user clicks New Conversation in the Header *)
NewConversation ==
  /\ ui' = onNewConversation(ui)
  /\ UNCHANGED <<turn, requests, clock, switchedOnFor>>
  /\ UNCHANGED notCli

(* the user clicks a card of ConversationHistory *)
SelectConversation ==
  /\ \E i \in 1..Len(ui.conversations) :
       ui' = handleSelectConversation(ui, ui.conversations[i].id)
  /\ UNCHANGED <<turn, requests, clock, switchedOnFor>>
  /\ UNCHANGED notCli

-----------------------------------------------------------------------------
(* Specifications                                                           *)

(* the client before the first render's effects *)
ClientStart ==
  /\ ui = InitialUi
  /\ turn = NoTurn
  /\ requests = <<>>
  /\ clock = 0
  /\ switchedOnFor = {}

(* no helper is being evaluated on its own *)
NoCall ==
  [fn |-> "none", demoMode |-> FALSE, promptTokens |-> 0, text |-> <<>>, maxLength |-> 0,
   apiKey |-> FALSE, reply |-> [kind |-> "empty", results |-> <<>>],
   researchData |-> Null, previousResearch |-> Null, agentRole |-> <<>>]

(* no command route has been called; the clock is past the stored commands *)
(* the useState and useRef initial values of VoiceInput, lines 65-82; rec:   *)
(* the recognizer ("inactive", "starting": start() was called, "listening", *)
(* "ending": its end event is due); restartTimer, timeout: the 500 ms and   *)
(* the 60 s timers are pending; maxReached: the branch "Max restart         *)
(* attempts reached" ran since the last click; sent: the last argument of   *)
(* onTranscript                                                             *)
InitialVoice ==
  [ rec |-> "inactive", isListening |-> FALSE, fullTranscript |-> <<>>,
    isStoppedByUser |-> FALSE, restartCount |-> 0, restartTimer |-> FALSE,
    timeout |-> FALSE, mediaStream |-> FALSE, maxReached |-> FALSE, sent |-> Null ]

NoApiCall ==
  /\ now = 2
  /\ api = [route |-> "none", arg |-> Null, status |-> 0, value |-> Null]

(* the server between two requests *)
ServerIdle ==
  /\ storageDb = FALSE
  /\ pc = "idle"
  /\ req = NoBody
  /\ loc = NoLocals
  /\ res = NoResponse
  /\ calls = <<>>

Init ==
  /\ env \in Envs
  /\ collection \in {<<>>, <<Cmd_Old>>}
  /\ ServerIdle
  /\ ClientStart
  /\ call = NoCall
  /\ returned = Null
  /\ NoApiCall
  /\ voice = InitialVoice

Next ==
  \/ Receive
  \/ HistorySearch
  \/ HistoryFallback
  \/ ResearchReturn
  \/ ModelReturn
  \/ SpeechReturn
  \/ OverlappingConnect
  \/ Close

vars == <<env, storageDb, collection, pc, req, loc, res, calls,
          ui, turn, requests, clock, switchedOnFor, call, returned, now, api, voice>>

(* the handler of POST /api/agents/discuss, one request at a time *)
Spec == Init /\ [][Next]_vars

ClientInit ==
  /\ env = [MOCK_BRAVE_SEARCH |-> TRUE, BRAVE_SEARCH_API_KEY |-> FALSE,
            MINIMAX_API_KEY |-> FALSE, MINIMAX_GROUP_ID |-> FALSE]
  /\ collection = <<>>
  /\ ServerIdle
  /\ ClientStart
  /\ call = NoCall
  /\ returned = Null
  /\ NoApiCall
  /\ voice = InitialVoice

ClientNext ==
  \/ HandleTranscript
  \/ ArchitectSettles
  \/ TeamSettles
  \/ SaveSettles
  \/ ToggleChange
  \/ NewConversation
  \/ SelectConversation

(* the Home page and its user, the server seen through its responses *)
ClientSpec == ClientInit /\ [][ClientNext]_vars

(* the most turns followed where the end of every turn is checked *)
MaxLiveTurns == 2

(* handleTranscript within the turns followed for the ends of turns *)
HandleTranscriptLive ==
  /\ clock < MaxLiveTurns
  /\ HandleTranscript

ClientLiveNext ==
  \/ HandleTranscriptLive
  \/ ArchitectSettles
  \/ TeamSettles
  \/ SaveSettles
  \/ ToggleChange
  \/ NewConversation
  \/ SelectConversation

(* the architect request rejects: the case of ArchitectSettles that needs   *)
(* no response.  It is enabled exactly while the architect request is       *)
(* outstanding, and every step of ArchitectSettles, whatever the outcome,   *)
(* disables it                                                              *)
ArchitectRejects ==
  /\ turn.pc = "architect"
  /\ Catch
  /\ UNCHANGED notCli

(* the Home page with every issued request settling in the end: no fetch    *)
(* stays outstanding for ever (the architect request, each request of the   *)
(* team, POST /api/commands); how a request settles is left open            *)
ClientLiveSpec ==
  /\ ClientInit
  /\ [][ClientLiveNext]_vars
  /\ WF_vars(ArchitectRejects)
  /\ WF_vars(TeamSettles)
  /\ WF_vars(SaveSettles)

-----------------------------------------------------------------------------
(* The helpers of the server evaluated on their own, on bounded arguments   *)

(* prompt sizes are taken every 250 tokens up to 250 * MaxPromptSteps *)
MaxPromptSteps == 48

(* the most sentences of a message given to summarizeResponse *)
MaxSentences == 3

(* sentences of the given lengths, each closed by a full stop, separated by *)
(* one space                                                                *)
RECURSIVE MessageOf(_)
MessageOf(lengths) ==
  IF lengths = <<>> THEN <<>>
  ELSE IF Len(lengths) = 1 THEN Cat(Rep("a", lengths[1]), Rep(".", 1))
  ELSE CatAll(<< Rep("a", lengths[1]), T(<<".", " ">>), MessageOf(Tail(lengths)) >>)

Messages ==
  {MessageOf(ls) : ls \in UNION {[1..n -> {5, 25, 60, 200}] : n \in 1..MaxSentences}}
    \cup {Rep(" ", 40), Cat(Rep(" ", 30), MessageOf(<<25, 25>>)), Rep("a", 400)}

P_BestPractices ==
  T(<<"b","e","s","t"," ","p","r","a","c","t","i","c","e","s"," ","f","o","r"," ",
      "R","e","a","c","t"," ","c","o","m","p","o","n","e","n","t","s">>)

(* the transcripts of the scenarios and of the documented examples *)
Prompts ==
  {T_Build, T_Ask, T_Compare, P_BestPractices,
   T(<<"H","o","w"," ","t","o"," ","b","u","i","l","d"," ","a"," ","s","c","a","l","a","b","l","e",
       " ","R","E","S","T"," ","A","P","I","?">>),
   T(<<"T","u","t","o","r","i","a","l"," ","f","o","r"," ","R","e","a","c","t"," ",
       "s","t","a","t","e"," ","m","a","n","a","g","e","m","e","n","t">>),
   T(<<"R","E","S","E","A","R","C","H"," ","o","r","m","s">>)}

(* the longest result list of a search reply *)
MaxHits == 6

(* replies of client.webSearch with 0..MaxHits hits, complete and bare ones *)
(* alternating                                                              *)
SearchReplies ==
  WebSearchReplies
    \cup {[kind |-> "results", results |-> [i \in 1..n |-> hs[(i % 2) + 1]]] :
             n \in 0..MaxHits, hs \in {<<H_Jwt, H_Bare>>, <<H_Bare, H_Jwt>>}}

(* research data whose top result has a description of 0 .. 5000 units *)
Researches ==
  { ResearchDataOf(T_Ask, <<Hit(T(<<"J","W","T">>), T(<<"j","w","t",".","i","o">>), Rep("d", n))>>) :
      n \in {0, 100, 1000, 5000} }

(* full prompts of 1001 * k characters, k up to MaxPromptKChars *)
MaxPromptKChars == 40

FullPrompts == {Rep("p", 1001 * k) : k \in 0..MaxPromptKChars}

(* texts for speech synthesis: a run, one sentence end, a second run; two   *)
(* sentence ends; no sentence end                                           *)
TtsTexts ==
  {CatAll(<<Rep("a", a), Rep(e, 1), Rep("b", b)>>) :
      a \in {0, 5, 8, 500, 700, 701, 998, 999, 1000, 1200},
      e \in {".", "!", "?"},
      b \in {0, 1, 2, 3, 300, 301, 500}}
    \cup {CatAll(<<Rep("a", 750), Rep(".", 1), Rep("b", 100), Rep(e, 1), Rep("c", n)>>) :
             e \in {"!", "?"}, n \in {100, 200}}
    \cup {Rep("a", n) : n \in {0, 11, 12, 13, 14, 999, 1000, 1001, 1002, 1003, 1004, 2000}}

(* the budgets given to truncateTextForTTS *)
TtsBudgets == {0, 10, 1000}

Calls ==
  {[NoCall EXCEPT !.fn = "safeOutputTokens", !.demoMode = d, !.promptTokens = n] :
      d \in BOOLEAN, n \in {250 * k : k \in 0..MaxPromptSteps}}
    \cup {[NoCall EXCEPT !.fn = "truncateTextForTTS", !.text = t, !.maxLength = k] :
             t \in TtsTexts, k \in TtsBudgets}
    \cup {[NoCall EXCEPT !.fn = "generateAgentSpeech", !.text = t, !.agentRole = r] :
             t \in TtsTexts, r \in AgentRoles \cup {toStringKey}}
    \cup {[NoCall EXCEPT !.fn = "outputAllocation", !.demoMode = d, !.text = t] :
             d \in BOOLEAN, t \in FullPrompts}
    \cup {[NoCall EXCEPT !.fn = "summarizeResponse", !.text = m, !.maxLength = k] :
             m \in Messages, k \in {0, 30, 150, 250, 300}}
    \cup {[NoCall EXCEPT !.fn = "shouldPerformResearch", !.text = t] : t \in Prompts}
    \cup {[NoCall EXCEPT !.fn = "performResearch", !.text = q, !.apiKey = k, !.reply = r] :
             q \in {T_Ask, T_Compare}, k \in BOOLEAN, r \in SearchReplies}
    \cup {[NoCall EXCEPT !.fn = "getMockResearchData", !.text = q] :
             q \in {T_Ask, T_Compare}}
    \cup {[NoCall EXCEPT !.fn = "researchBlock", !.researchData = r, !.previousResearch = p] :
             r \in {Null} \cup {Some(d) : d \in Researches},
             p \in {Null} \cup {Some(d) : d \in Researches}}

EvalSafeOutputTokens ==
  /\ call.fn = "safeOutputTokens"
  /\ returned = Null
  /\ returned' = Some(safeOutputTokens(call.demoMode, call.promptTokens))
  /\ UNCHANGED <<call, notFn>>

(* lines 263-267 applied to one full prompt *)
EvalOutputAllocation ==
  /\ call.fn = "outputAllocation"
  /\ returned = Null
  /\ returned' = Some(safeOutputTokens(call.demoMode, estimateTokenCount(call.text)))
  /\ UNCHANGED <<call, notFn>>

EvalTruncateTextForTTS ==
  /\ call.fn = "truncateTextForTTS"
  /\ returned = Null
  /\ returned' = Some(truncateTextForTTS(call.text, call.maxLength))
  /\ UNCHANGED <<call, notFn>>

(* generateAgentSpeech with both keys configured, against every reply of    *)
(* the provider                                                             *)
EvalGenerateAgentSpeech ==
  /\ call.fn = "generateAgentSpeech"
  /\ returned = Null
  /\ \E reply \in TtsReplies :
       returned' = Some(generateAgentSpeech(call.agentRole, call.text, TRUE, TRUE, reply))
  /\ UNCHANGED <<call, notFn>>

EvalSummarizeResponse ==
  /\ call.fn = "summarizeResponse"
  /\ returned = Null
  /\ returned' = Some(summarizeResponse(call.text, call.maxLength))
  /\ UNCHANGED <<call, notFn>>

EvalShouldPerformResearch ==
  /\ call.fn = "shouldPerformResearch"
  /\ returned = Null
  /\ returned' = Some(shouldPerformResearch(call.text))
  /\ UNCHANGED <<call, notFn>>

EvalPerformResearch ==
  /\ call.fn = "performResearch"
  /\ returned = Null
  /\ returned' = Some(performResearch(call.text, call.apiKey, call.reply).value)
  /\ UNCHANGED <<call, notFn>>

EvalGetMockResearchData ==
  /\ call.fn = "getMockResearchData"
  /\ returned = Null
  /\ returned' = Some(Some(getMockResearchData(call.text)))
  /\ UNCHANGED <<call, notFn>>

(* lines 232-241 applied to one pair of research values *)
EvalResearchBlock ==
  /\ call.fn = "researchBlock"
  /\ returned = Null
  /\ returned' = Some(ResearchBlock(call.researchData, call.previousResearch))
  /\ UNCHANGED <<call, notFn>>

HelperInit ==
  /\ env = [MOCK_BRAVE_SEARCH |-> TRUE, BRAVE_SEARCH_API_KEY |-> FALSE,
            MINIMAX_API_KEY |-> FALSE, MINIMAX_GROUP_ID |-> FALSE]
  /\ collection = <<>>
  /\ ServerIdle
  /\ ClientStart
  /\ call \in Calls
  /\ returned = Null
  /\ NoApiCall
  /\ voice = InitialVoice

HelperNext ==
  \/ EvalSafeOutputTokens
  \/ EvalOutputAllocation
  \/ EvalTruncateTextForTTS
  \/ EvalGenerateAgentSpeech
  \/ EvalSummarizeResponse
  \/ EvalShouldPerformResearch
  \/ EvalPerformResearch
  \/ EvalGetMockResearchData
  \/ EvalResearchBlock

(* one helper applied once to one argument list *)
HelperSpec == HelperInit /\ [][HelperNext]_vars

-----------------------------------------------------------------------------
(* The command routes: POST /api/commands, GET /api/commands/recent/:limit  *)

(* the most commands followed in the store *)
MaxCommands == 2

(* the latest reading of the server's clock that is followed *)
MaxClock == 4

(* variant: the body is spread over the server's timestamp *)
commandDataBodyLast(body, date) ==
  IF body.timestamp # Null THEN body ELSE [body EXCEPT !.timestamp = Some(date)]

(* routes.ts lines 374-377: { ...req.body, timestamp: new Date() } *)
commandDataOf(body, date) == [body EXCEPT !.timestamp = Some(date)]

(* saveCommand(command), storage.ts; d: [connect, insert], what the driver  *)
(* does.  new Date(command.timestamp) of a Date is the same instant.        *)
saveCommand(db, coll, command, d) ==
  LET c == connect(db, d.connect)
  IN  IF c.throws \/ ~d.insert
      THEN [throws |-> TRUE, db |-> c.db, coll |-> coll, value |-> Null]
      ELSE [throws |-> FALSE, db |-> c.db, coll |-> Append(coll, command),
            value |-> Some([transcript |-> command.transcript,
                            timestamp |-> command.timestamp,
                            agentResponses |-> command.agentResponses,
                            id |-> Len(coll) + 1])]

(* the bodies of POST /api/commands: a client may send a timestamp (0) *)
CommandBodies ==
  [ transcript     : {Null, Some(T_Build)},
    timestamp      : {Null, Some(0)},
    agentResponses : {Null, Some(<<[role |-> architect, message |-> M_Architect]>>),
                      Some(<<[role |-> architect, message |-> T_Ask],
                             [role |-> backend, message |-> M_Architect]>>)} ]

(* routes.ts lines 372-399 *)
PostCommands ==
  /\ Len(collection) < MaxCommands
  /\ \E body \in CommandBodies, date \in {now, Min(now + 1, MaxClock)},
        d \in [connect : BOOLEAN, insert : BOOLEAN] :
       LET commandData == commandDataOf(body, date)
           called(status, value) ==
             [route |-> "POST /api/commands", arg |-> Some(body),
              status |-> status, value |-> value]
       IN  /\ now' = date
           /\ IF Falsy(commandData.transcript)
              THEN /\ api' = called(400, Null)
                   /\ UNCHANGED <<storageDb, collection>>
              ELSE LET r == saveCommand(storageDb, collection,
                                        [transcript |-> commandData.transcript[1],
                                         timestamp |-> commandData.timestamp[1],
                                         agentResponses |->
                                           IF commandData.agentResponses = Null THEN <<>>
                                           ELSE commandData.agentResponses[1]], d)
                   IN  /\ storageDb' = r.db
                       /\ collection' = r.coll
                       /\ api' = called(IF r.throws THEN 500 ELSE 200, r.value)
  /\ UNCHANGED <<env, pc, req, loc, res, calls>>
  /\ UNCHANGED <<cliVars, fnVars, voiceVars>>

(* routes.ts lines 415-428; param: parseInt(req.params.limit), Null for NaN *)
GetRecentCommands ==
  /\ \E param \in {Null, Some(0), Some(1), Some(MaxCommands)} :
       LET limit == IF param = Null \/ param[1] = 0 THEN 10 ELSE param[1]
       IN  \E r \in {getRecentCommands(storageDb, sorted, limit, d) :
                       sorted \in SortedRecent(collection),
                       d \in [connect : BOOLEAN, find : BOOLEAN]} :
              /\ storageDb' = r.db
              /\ api' = [route |-> "GET /api/commands/recent", arg |-> Some(limit),
                         status |-> IF r.throws THEN 500 ELSE 200,
                         value |-> IF r.throws THEN Null ELSE Some(r.value)]
  /\ UNCHANGED <<env, collection, pc, req, loc, res, calls, now>>
  /\ UNCHANGED <<cliVars, fnVars, voiceVars>>

StoreInit ==
  /\ env = [MOCK_BRAVE_SEARCH |-> TRUE, BRAVE_SEARCH_API_KEY |-> FALSE,
            MINIMAX_API_KEY |-> FALSE, MINIMAX_GROUP_ID |-> FALSE]
  /\ collection \in {<<>>, <<Cmd_Old>>}
  /\ ServerIdle
  /\ ClientStart
  /\ call = NoCall
  /\ returned = Null
  /\ NoApiCall
  /\ voice = InitialVoice

StoreNext ==
  \/ PostCommands
  \/ GetRecentCommands

(* the command store behind its two routes *)
StoreSpec == StoreInit /\ [][StoreNext]_vars

-----------------------------------------------------------------------------
(* The VoiceInput component, client/src/components/examples/AgentCard.tsx.  *)
(* The recognizer is the browser's SpeechRecognition object: start() on a   *)
(* recognizer that is not inactive throws InvalidStateError, stop() on one  *)
(* that is starting or listening makes its end event due, and an error      *)
(* event is always followed by an end event.                                *)

(* the longest transcript the user dictates, in UTF-16 units *)
MaxTranscriptLen == 5

(* what the user can say in one final result *)
Utterances == {T(<<"h", "i">>)}

(* the user clicks the microphone button: handleStart, lines 383-424 *)
HandleStart ==
  /\ ~voice.isListening
  /\ \E granted \in BOOLEAN :
       IF ~granted
       THEN voice' = [voice EXCEPT !.maxReached = FALSE]
       ELSE voice' = [voice EXCEPT
                        !.mediaStream = TRUE,
                        !.fullTranscript = <<>>,
                        !.isStoppedByUser = FALSE,
                        !.restartCount = 0,
                        !.maxReached = FALSE,
                        !.rec = IF @ = "inactive" THEN "starting" ELSE @,
                        !.timeout = IF voice.rec = "inactive" THEN TRUE ELSE @]
  /\ UNCHANGED notVoice

(* recognition.onstart, lines 111-121 *)
OnStart ==
  /\ voice.rec = "starting"
  /\ voice' = [voice EXCEPT
                 !.rec = "listening",
                 !.isListening = TRUE,
                 !.fullTranscript =
                    IF voice.restartCount = 0 /\ voice.fullTranscript = <<>>
                    THEN <<>> ELSE @]
  /\ UNCHANGED notVoice

(* recognition.onresult with one new final result, lines 123-160 *)
OnResult ==
  /\ voice.rec = "listening"
  /\ \E transcript \in Utterances :
       LET newFinalTranscript == Cat(transcript, T(<<" ">>))
           accumulated == Trim(CatAll(<<voice.fullTranscript, T(<<" ">>),
                                        newFinalTranscript>>))
       IN  /\ TextLen(accumulated) <= MaxTranscriptLen
           /\ voice' = [voice EXCEPT !.restartCount = 0,
                                     !.fullTranscript = accumulated]
  /\ UNCHANGED notVoice

(* recognition.onerror, lines 162-243; the recognizer ends after the error *)
OnError ==
  /\ voice.rec = "listening"
  /\ \E error \in {"no-speech", "network"} :
       IF error = "no-speech" /\ voice.isStoppedByUser
       THEN voice' = [voice EXCEPT !.rec = "ending"]
       ELSE IF error = "no-speech" /\ voice.restartCount < 3
       THEN voice' = [voice EXCEPT !.rec = "ending",
                                   !.restartCount = @ + 1,
                                   !.restartTimer = TRUE]
       ELSE voice' = [voice EXCEPT !.rec = "ending",
                                   !.maxReached = @ \/ error = "no-speech",
                                   !.timeout = FALSE,
                                   !.isListening = FALSE,
                                   !.restartCount = 0,
                                   !.mediaStream = FALSE]
  /\ UNCHANGED notVoice

(* the setTimeout callback of lines 180-188 *)
RestartTimerFires ==
  /\ voice.restartTimer
  /\ voice' = [voice EXCEPT
                 !.restartTimer = FALSE,
                 !.rec = IF ~voice.isStoppedByUser /\ @ = "inactive"
                         THEN "starting" ELSE @]
  /\ UNCHANGED notVoice

(* the browser ends the recognition on its own ("Chrome auto-ended") *)
AutoEnd ==
  /\ voice.rec = "listening"
  /\ voice' = [voice EXCEPT !.rec = "ending"]
  /\ UNCHANGED notVoice

(* recognition.onend, lines 245-313 *)
OnEnd ==
  /\ voice.rec = "ending"
  /\ LET finalTranscript == Trim(voice.fullTranscript)
     IN  IF voice.restartCount > 0 /\ ~voice.isStoppedByUser
         THEN voice' = [voice EXCEPT !.rec = "inactive"]
         ELSE IF ~voice.isStoppedByUser /\ finalTranscript # <<>>
         THEN voice' = [voice EXCEPT !.rec = "starting"]
         ELSE voice' = [voice EXCEPT
                          !.rec = "inactive",
                          !.timeout = FALSE,
                          !.isListening = FALSE,
                          !.restartCount = 0,
                          !.sent = IF finalTranscript # <<>>
                                   THEN Some(finalTranscript) ELSE @,
                          !.fullTranscript = <<>>,
                          !.mediaStream = FALSE,
                          !.isStoppedByUser = FALSE]
  /\ UNCHANGED notVoice

(* the 60 s timer of handleStart, lines 401-408 *)
TimeoutFires ==
  /\ voice.timeout
  /\ voice' = [voice EXCEPT
                 !.timeout = FALSE,
                 !.isStoppedByUser = TRUE,
                 !.rec = IF @ \in {"starting", "listening"} THEN "ending" ELSE @]
  /\ UNCHANGED notVoice

(* the user clicks "Done Speaking": handleStop, lines 426-436 *)
HandleStop ==
  /\ voice.isListening
  /\ voice' = [voice EXCEPT
                 !.isStoppedByUser = TRUE,
                 !.restartCount = 0,
                 !.timeout = FALSE,
                 !.maxReached = FALSE,
                 !.rec = IF @ \in {"starting", "listening"} THEN "ending" ELSE @]
  /\ UNCHANGED notVoice

VoiceInit ==
  /\ env = [MOCK_BRAVE_SEARCH |-> TRUE, BRAVE_SEARCH_API_KEY |-> FALSE,
            MINIMAX_API_KEY |-> FALSE, MINIMAX_GROUP_ID |-> FALSE]
  /\ collection = <<>>
  /\ ServerIdle
  /\ ClientStart
  /\ call = NoCall
  /\ returned = Null
  /\ NoApiCall
  /\ voice = InitialVoice

VoiceNext ==
  \/ HandleStart
  \/ OnStart
  \/ OnResult
  \/ OnError
  \/ RestartTimerFires
  \/ AutoEnd
  \/ OnEnd
  \/ TimeoutFires
  \/ HandleStop

(* the voice input of the home page *)
VoiceSpec == VoiceInit /\ [][VoiceNext]_vars

-----------------------------------------------------------------------------
(* Properties of POST /api/agents/discuss                                   *)

RECURSIVE CountOf(_, _)
CountOf(s, names) ==
  IF s = <<>> THEN 0
  ELSE (IF s[1] \in names THEN 1 ELSE 0) + CountOf(Tail(s), names)

SearchCalls == CountOf(calls, {"getMockResearchData", "performResearch"})

ModelCalls == CountOf(calls, {"generateContent"})

SpeechCalls == CountOf(calls, {"generateAgentSpeech", "fetch"})

(* the request in progress passed the research gate's three conditions *)
GateOpen ==
  /\ req.agentRole = Some(architect)
  /\ req.previousResearch = Null
  /\ ~Falsy(req.transcript)
  /\ shouldPerformResearch(req.transcript[1])

C3_SearchArchitectOnly ==
  /\ req.agentRole \in {Some(backend), Some(frontend), Some(qa)} =>
       (SearchCalls = 0 /\ CountOf(calls, {"webSearch"}) = 0)
  /\ SearchCalls > 0 => req.agentRole = Some(architect)
  /\ SearchCalls <= 1
  /\ CountOf(calls, {"webSearch"}) <= SearchCalls

C3_Witness ==
  /\ req.agentRole = Some(qa)
  /\ req.transcript = Some(T_Ask)
  /\ req.previousResearch = Null
  /\ pc = "responded"
  /\ res.status = 200
  /\ SearchCalls = 0

(* the request in progress passed validation and carries previousResearch *)
CarriesResearch ==
  /\ pc # "idle"
  /\ res.status # 400
  /\ req.previousResearch # Null

(* C4: a request that passes validation and supplies previousResearch makes *)
(* no search call, whatever its role and transcript; once its history stage *)
(* is over the model has been called, and the prompt passed to the model    *)
(* contains previousResearch.summary.                                       *)
C4_PreviousResearchReused ==
  CarriesResearch =>
     /\ SearchCalls = 0
     /\ pc # "performResearch"
     /\ pc \in {"generateContent", "generateAgentSpeech", "responded"} =>
          /\ ModelCalls = 1
          /\ loc.fullPrompt # Null
     /\ pc = "generateContent" =>
          Includes(loc.fullPrompt[1], req.previousResearch[1].summary)

C4_Witness ==
  /\ CarriesResearch
  /\ req.agentRole = Some(architect)
  /\ req.transcript = Some(T_Ask)
  /\ pc = "generateContent"
  /\ Includes(loc.fullPrompt[1], R_Prev.summary)

(* C7: a request whose transcript or agentRole is missing or empty, or      *)
(* whose agentRole is not architect, backend, frontend or qa, is answered   *)
(* 400 with no external call made.                                          *)
C7_InvalidRequestRejected ==
  (pc # "idle" /\ (\/ Falsy(req.transcript)
                   \/ Falsy(req.agentRole)
                   \/ req.agentRole[1] \notin AgentRoles)) =>
     /\ pc = "responded"
     /\ res.status = 400
     /\ calls = <<>>

(* C8: when the model call has failed the request has ended with status 500 *)
(* whose details are the provider's error message; the model was called     *)
(* exactly once in the request and speech synthesis was not attempted.      *)
C8_ModelFailureIs500 ==
  /\ loc.error # Null =>
       /\ pc = "responded"
       /\ res.status = 500
       /\ res.details = loc.error
       /\ res.details[1] \in ModelErrors
       /\ res.message = Null
       /\ ModelCalls = 1
       /\ SpeechCalls = 0
  /\ res.status = 500 => loc.error # Null

C8_Witness ==
  /\ loc.error = Some(Lit("#429 quota exceeded", 18))
  /\ res.status = 500
  /\ pc = "responded"

(* speech synthesis was attempted and produced no audio: generateSpeech     *)
(* returned null, or a Buffer without a single byte                         *)
SynthesisFailed ==
  /\ pc = "responded"
  /\ "generateAgentSpeech" \in {calls[i] : i \in 1..Len(calls)}
  /\ loc.audioBuffer \in {Null, Some(<<>>)}

(* C9: when speech synthesis has failed after a successful model call the   *)
(* response is 200 with audioData null, and with the message, truncated     *)
(* flag and tokenInfo of the model call.                                    *)
C9_SpeechFailureNullAudio ==
  SynthesisFailed =>
     /\ res.status = 200
     /\ res.audioData = Null
     /\ res.message = Some(Trim(loc.message))
     /\ res.truncated = Some(loc.wasTruncated)
     /\ res.tokenInfo = Some([promptTokens |-> loc.promptTokens,
                              allocatedOutputTokens |-> loc.safeOutputTokens,
                              finishReason |-> loc.finishReason])

(* C10: a step of the history stage never produces an error response,       *)
(* neither a step of the invocation nor the connection being opened by an   *)
(* overlapping one: a failed relevance search is followed by the recency    *)
(* fetch, and after the recency fetch the handler goes on, with an empty    *)
(* history when the store could not be reached.                             *)
C10_HistoryNeverAborts ==
  [][ /\ (pc = "searchCommands" /\ pc' # pc) =>
           /\ pc' \in {"getRecentCommands", "performResearch", "generateContent", "responded"}
           /\ pc' = "getRecentCommands" =>
                calls' = <<"storage.searchCommands", "storage.getRecentCommands">>
      /\ (pc = "getRecentCommands" /\ pc' # pc) =>
           /\ pc' \in {"performResearch", "generateContent", "responded"}
           /\ storageDb' = FALSE => loc'.commandHistory = <<>>
      /\ pc \in {"searchCommands", "getRecentCommands"} =>
           /\ res'.status \in {0, 200}
           /\ res'.error = Null ]_vars

C10_Witness ==
  /\ pc = "generateContent"
  /\ calls = <<"storage.searchCommands", "storage.getRecentCommands", "generateContent">>
  /\ collection # <<>>
  /\ storageDb = FALSE
  /\ loc.commandHistory = <<>>

-----------------------------------------------------------------------------
(* Properties of the pipeline driver of Home                                *)

RECURSIVE RolesOf(_)
RolesOf(context) ==
  IF context = <<>> THEN <<>> ELSE <<context[1].role>> \o RolesOf(Tail(context))

(* C1: every qa request of an invocation of handleTranscript is issued      *)
(* after the backend and the frontend responses of that invocation were     *)
(* received, and its context is the Architect, Backend and Frontend entries *)
(* in that order.                                                           *)
C1_QaAfterBackendAndFrontend ==
  \A i \in 1..Len(requests) :
     requests[i].body.agentRole = Some(qa) =>
        /\ {backend, frontend} \subseteq requests[i].received
        /\ RolesOf(requests[i].body.context)
             = <<ArchitectEntry.role, BackendEntry.role, FrontendEntry.role>>

(* C5: a request carries previousResearch = R only if the user set the      *)
(* Apply Research switch on at a moment when R was the stored research data.*)
C5_ResearchOnlyByChoice ==
  \A i \in 1..Len(requests) :
     requests[i].body.previousResearch # Null =>
        requests[i].body.previousResearch[1] \in switchedOnFor

(* how far the user's clicks are followed from a state of the page *)
MaxClicks == 3

(* the pages one click away from u: the switch (when rendered), New         *)
(* Conversation, a card of the history                                      *)
Clicks(u) ==
  (IF ToggleRendered(u) THEN {handleToggleChange(u, ~u.applyResearchToNext)} ELSE {})
  \cup {onNewConversation(u)}
  \cup {handleSelectConversation(u, u.conversations[i].id) : i \in 1..Len(u.conversations)}

(* the pages at most k clicks away from those of S on which the stored      *)
(* research data is still r                                                 *)
RECURSIVE KeepingResearch(_, _, _)
KeepingResearch(S, r, k) ==
  IF k = 0 THEN S
  ELSE KeepingResearch(S \cup {v \in UNION {Clicks(u) : u \in S} : v.researchData = r},
                       r, k - 1)

(* a research-only invocation has returned and its research data is stored *)
ResearchOnlyEnded ==
  /\ turn.pc = "none"
  /\ turn.outcome = "researchOnly"
  /\ ui.researchData # Null

(* C6: once a research-only invocation has returned, the user can, by       *)
(* clicks that keep the stored research data, bring the page to a state     *)
(* where a voice input is available and the request it sends carries that   *)
(* research data as previousResearch.                                       *)
C6_ResearchCanBeContinued ==
  ResearchOnlyEnded =>
     \E v \in KeepingResearch({ui}, ui.researchData, MaxClicks) :
        /\ VoiceInputAvailable(v)
        /\ previousResearchOf(v) = ui.researchData

-----------------------------------------------------------------------------
(* Properties of the research step, the token budget and the response      *)

CalledNames == {calls[i] : i \in 1..Len(calls)}

(* the research step of the request in progress ran and gave no data *)
ResearchGaveNothing ==
  /\ "performResearch" \in CalledNames
  /\ pc # "performResearch"
  /\ loc.researchData = Null

(* C11: when the research step was triggered and the search gave no data    *)
(* (not configured, rejected, no result list, empty result list) the        *)
(* request goes on: the prompt is assembled without a research block, the   *)
(* model is called, researchData stays null, and the only error response    *)
(* possible is that of a failed model call.                                 *)
C11_ResearchAbsenceNotFatal ==
  ResearchGaveNothing =>
     /\ pc \in {"generateContent", "generateAgentSpeech", "responded"}
     /\ ModelCalls = 1
     /\ loc.fullPrompt # Null
     /\ pc = "generateContent" =>
          ~Includes(loc.fullPrompt[1], Lit("#RESEARCH FINDINGS (Brave Search):", 38))
     /\ res.researchData = Null
     /\ res.status \in {0, 200, 500}
     /\ res.status = 500 => loc.error # Null

C11_Witness ==
  /\ ResearchGaveNothing
  /\ calls = <<"storage.searchCommands", "performResearch", "webSearch",
               "generateContent", "generateAgentSpeech">>
  /\ pc = "responded"
  /\ res.status = 200
  /\ res.researchData = Null

(* a response of the model path has been sent *)
ModelPathResponse ==
  /\ pc = "responded"
  /\ res.status = 200
  /\ "generateContent" \in CalledNames

(* the estimated prompt tokens exceed the mode's warning threshold: 100000  *)
(* in production mode, 70% of 8192 in demo mode                             *)
OverThreshold ==
  IF req.demoMode THEN 10 * loc.promptTokens > 7 * 8192 ELSE loc.promptTokens > 100000

(* C12: in a model-path response truncated is true exactly when the finish  *)
(* reason is MAX_TOKENS; when truncated the warning is the truncation       *)
(* warning naming the role, also when the prompt is over the threshold;     *)
(* when not truncated a warning is present exactly when the estimated       *)
(* prompt tokens exceed the threshold of the mode.                          *)
C12_TruncationAndWarning ==
  ModelPathResponse =>
     /\ loc.promptTokens = estimateTokenCount(loc.fullPrompt[1])
     /\ res.truncated = Some(loc.finishReason = Some("MAX_TOKENS"))
     /\ res.truncated = Some(TRUE) =>
          /\ res.warning = Some(CatAll(<< Lit("#The ", 4), req.agentRole[1],
                                          Lit("# agent's response was truncated ...", 127) >>))
          /\ TextLen(res.warning[1]) > 0
     /\ res.truncated = Some(FALSE) => (res.warning # Null <=> OverThreshold)

C12_Witness ==
  /\ ModelPathResponse
  /\ res.truncated = Some(TRUE)
  /\ OverThreshold
  /\ ~req.demoMode
  /\ res.warning # Null

-----------------------------------------------------------------------------
(* Properties of the helpers                                                *)

(* the named helper has returned *)
Returned(fn) == call.fn = fn /\ returned # Null

C14_AllocationFitsContextWindow ==
  Returned("safeOutputTokens") =>
     call.promptTokens + returned[1] <= maxModelTokens(call.demoMode)

(* a 200 response has been sent *)
Responded200 == pc = "responded" /\ res.status = 200

-----------------------------------------------------------------------------
(* Properties of the requests and the context of one handleTranscript       *)

(* the roles of the requests issued by the invocation, in issue order *)
IssuedRoles == [i \in 1..Len(requests) |-> requests[i].body.agentRole[1]]

IsPrefix(s, t) == Len(s) <= Len(t) /\ SubSeq(t, 1, Len(s)) = s

(* C17: within a turn the context array is append-only, no entry removed or *)
(* reordered, and its order is Architect, Backend, Frontend whichever of    *)
(* the backend and frontend responses arrives first.                        *)
C17_ContextAppendOnly ==
  [][ (turn.pc # "none" /\ turn'.pc # "none") =>
         /\ IsPrefix(turn.context, turn'.context)
         /\ RolesOf(turn'.context) \in
              { <<>>, <<ArchitectEntry.role>>,
                <<ArchitectEntry.role, BackendEntry.role, FrontendEntry.role>> } ]_vars

(* the three entries are in place although the frontend response is the one *)
(* that completed a Promise.all                                             *)
C17_Witness ==
  /\ turn.pc = "saveCommand"
  /\ RolesOf(turn.context)
       = <<ArchitectEntry.role, BackendEntry.role, FrontendEntry.role>>

(* C18: summarizeResponse(m, maxLength) returns m unchanged when m is at    *)
(* most maxLength long, and otherwise a string at most maxLength plus the   *)
(* 3 characters of the ellipsis marker long.                                *)
C18_SummaryBounded ==
  Returned("summarizeResponse") =>
     IF TextLen(call.text) <= call.maxLength
     THEN returned[1] = call.text
     ELSE TextLen(returned[1]) <= call.maxLength + 3

(* three sentences of 60 characters against 150: the first two are kept *)
C18_Witness ==
  /\ Returned("summarizeResponse")
  /\ call.maxLength = 150
  /\ call.text = MessageOf(<<60, 60, 60>>)
  /\ TextLen(call.text) > call.maxLength
  /\ TextLen(returned[1]) = 123

-----------------------------------------------------------------------------
(* Properties of the research trigger                                       *)

(* the lower-cased text contains a phrase of the pattern table *)
ContainsPattern(text) ==
  \E k \in 1..Len(researchQuestionPatterns) :
     Includes(ToLowerCase(text), researchQuestionPatterns[k])

(* the handler is past its research gate with an architect request that     *)
(* carries no previousResearch                                              *)
ArchitectPastGate ==
  /\ Len(calls) > 0
  /\ pc \notin {"idle", "searchCommands", "getRecentCommands"}
  /\ req.agentRole = Some(architect)
  /\ req.previousResearch = Null

DocumentedKeywords ==
  { T(<<"b","e","s","t"," ","p","r","a","c","t","i","c","e">>),
    T(<<"b","e","s","t"," ","w","a","y">>),
    T(<<"h","o","w"," ","t","o">>),
    T(<<"t","u","t","o","r","i","a","l">>),
    T(<<"g","u","i","d","e">>),
    T(<<"i","m","p","l","e","m","e","n","t">>),
    T(<<"i","n","t","e","g","r","a","t","i","o","n">>),
    T(<<"s","e","t","u","p">>),
    T(<<"r","e","c","o","m","m","e","n","d">>),
    T(<<"c","o","m","p","a","r","e">>),
    T(<<"v","s">>) }

(* C20: research is triggered whenever the transcript contains one of the   *)
(* documented keywords ('best practice', 'best way', 'how to', 'tutorial',  *)
(* 'guide', 'implement', 'integration', 'setup', 'recommend', 'compare',    *)
(* 'vs'), as for 'best practices for React components'.                     *)
C20_DocumentedKeywordsTrigger ==
  (/\ Returned("shouldPerformResearch")
   /\ \E k \in DocumentedKeywords : Includes(ToLowerCase(call.text), k))
     => returned = Some(TRUE)

-----------------------------------------------------------------------------
(* Properties of the command store                                          *)

(* the last call was a POST /api/commands that stored its command *)
Stored == api.route = "POST /api/commands" /\ api.status = 200

(* C21: a command stored through POST /api/commands carries the timestamp   *)
(* the server read from its clock at the write; a timestamp sent in the     *)
(* body reaches neither the store nor the returned record.                  *)
C21_TimestampServerAssigned ==
  /\ \A i \in 1..Len(collection) : collection[i].timestamp # 0
  /\ Stored =>
       /\ collection # <<>>
       /\ collection[Len(collection)].timestamp = now
       /\ api.value[1].timestamp = now
       /\ api.arg[1].timestamp # Null => api.value[1].timestamp # api.arg[1].timestamp[1]

C21_Witness ==
  /\ Stored
  /\ api.arg[1].timestamp = Some(0)
  /\ collection[Len(collection)].timestamp = now
  /\ now > 0

(* the last call was a listing of the recent commands that succeeded *)
Listed == api.route = "GET /api/commands/recent" /\ api.status = 200

(* C22: once a command with agentResponses = [{role: architect, message:    *)
(* X}] is saved, a listing of the recent commands with a limit of at least  *)
(* 1 returns a record whose agentResponses[0].message is X; a listing       *)
(* returns at most limit records, most recent first.                        *)
C22_SavedCommandIsListed ==
  (Listed /\ collection # <<>>) =>
     LET saved  == collection[Len(collection)]
         listed == api.value[1]
     IN  /\ Len(listed) <= api.arg[1]
         /\ \A i, j \in 1..Len(listed) : i < j => listed[i].timestamp >= listed[j].timestamp
         /\ saved.agentResponses # <<>> =>
              \E i \in 1..Len(listed) :
                 /\ listed[i].agentResponses # <<>>
                 /\ listed[i].agentResponses[1].message = saved.agentResponses[1].message

(***************************************************************************)
(* Properties of the client's conversation history and of its writes to    *)
(* the command store.                                                      *)
(***************************************************************************)

(* the history entry that handleTranscript added in the running turn *)
EntryOfTurn == ui.conversations[1]

(* C23: research data persists in the conversation history: after a turn    *)
(* that returned research to the client without implementing it, some       *)
(* history entry stores research data; and the entry of a turn implemented  *)
(* with research applied stores the research that was applied.              *)
C23_ResearchPersistsInHistory ==
  /\ turn.outcome = "researchOnly" =>
        \E i \in DOMAIN ui.conversations : ui.conversations[i].researchData # Null
  /\ (turn.pc = "saveCommand" /\ turn.previousResearch # Null) =>
        EntryOfTurn.researchData = turn.previousResearch

(* the two halves of C23, each on its own *)
ResearchOnlyTurnIsInHistory ==
  turn.outcome = "researchOnly" =>
     \E i \in DOMAIN ui.conversations : ui.conversations[i].researchData # Null
AppliedResearchIsInHistory ==
  (turn.pc = "saveCommand" /\ turn.previousResearch # Null) =>
     EntryOfTurn.researchData = turn.previousResearch

(* the toast of the inner catch of handleTranscript, lines 617-623 *)
SaveFailedToast == Some(Lit("#Failed to save command", 22))

(* C24: when the write of the completed turn to the command store fails,    *)
(* the step that handles the failure leaves the agent states and the        *)
(* history as they were, the turn ends as completed with its entry in the   *)
(* history with status 'completed' and four complete agent states, and the  *)
(* toast "Failed to save command" is raised.                                *)
C24_SaveFailureKeepsResults ==
  [][ (turn.pc = "saveCommand" /\ turn'.saveStatus = 500) =>
        /\ ui'.agentStates = ui.agentStates
        /\ ui'.conversations = ui.conversations
        /\ \E i \in DOMAIN ui'.conversations :
              /\ ui'.conversations[i].command = turn.text
              /\ ui'.conversations[i].status = "completed"
              /\ ui'.conversations[i].agentStates = Some(CompleteAgentStates)
        /\ turn'.outcome = "completed"
        /\ turn'.saveToast = SaveFailedToast ]_vars

C24_Witness ==
  /\ turn.saveStatus = 500
  /\ turn.saveToast = SaveFailedToast
  /\ ui.agentStates = CompleteAgentStates
  /\ Len(ui.conversations) > 0
  /\ ui.conversations[1].status = "completed"

(* the responses of all four agent requests of the running turn are known *)
AllFourKnown ==
  /\ turn.architectData # Null
  /\ { IssuedRoles[i] : i \in 1..Len(requests) } = {architect, backend, frontend, qa}
  /\ turn.pending = {}
  /\ ~turn.notOk

StoredCommandsKept == [][IsPrefix(collection, collection')]_vars

(***************************************************************************)
(* Properties of the research step.                                        *)
(***************************************************************************)

(* a research function has returned a ResearchData value *)
ProducedResearch ==
  /\ call.fn \in {"performResearch", "getMockResearchData"}
  /\ returned # Null
  /\ returned[1] # Null

Apology == Lit("#I apologize, but I couldn't generate a response.", 48)

(* C28: every 200 response of the model path carries a non-empty message,   *)
(* the trimmed text of the model or, when the model returned no text, the   *)
(* apology.                                                                 *)
C28_MessageNonEmpty ==
  ModelPathResponse =>
     /\ res.message = Some(Trim(loc.message))
     /\ res.message # Some(<<>>)

(* what does hold: the message is the trimmed text, and it is the apology   *)
(* or a text of the model                                                   *)
MessageIsTrimmedText ==
  ModelPathResponse =>
     /\ res.message = Some(Trim(loc.message))
     /\ loc.message = Apology \/ \E r \in ModelReplies : r.text = Some(loc.message)

(* the research findings block has been built from some research *)
BuiltResearchBlock ==
  /\ call.fn = "researchBlock"
  /\ returned # Null
  /\ call.researchData # Null \/ call.previousResearch # Null

(* C30: the research findings block of the prompt has a bounded size,       *)
(* whatever the length of the research summary, fresh or supplied as        *)
(* previousResearch: at most its fixed text (38 + 2 + 108 + 75 units) and   *)
(* 250 units of summary, the size the agents' context entries are cut to.   *)
C30_ResearchBlockBounded ==
  BuiltResearchBlock => TextLen(returned[1]) <= 223 + 250

(* what does hold: the block is its fixed text around the whole summary *)
ResearchBlockHoldsWholeSummary ==
  BuiltResearchBlock =>
    LET activeResearch == IF call.researchData # Null THEN call.researchData[1]
                          ELSE call.previousResearch[1]
    IN  /\ Includes(returned[1], activeResearch.summary)
        /\ TextLen(returned[1]) = TextLen(activeResearch.summary) + 115
                                    + (IF call.previousResearch # Null THEN 108 ELSE 0)

(***************************************************************************)
(* Properties of the voice input.                                          *)
(***************************************************************************)

(* the recognizer has been started and has not ended *)
RecognizerOn == voice.rec \in {"starting", "listening"}

(* C29: once the limit of three restarts on 'no-speech' errors has been     *)
(* reached, the recognizer is not started again until the user clicks,      *)
(* whether or not some speech had already been transcribed.                 *)
C29_NoRestartAfterLimit == voice.maxReached => ~RecognizerOn

(* what does hold: the restart counter never exceeds three, and when the    *)
(* limit is reached with nothing transcribed the recognizer stays off       *)
SilentSessionEnds ==
  /\ voice.restartCount \in 0..3
  /\ (voice.maxReached /\ voice.fullTranscript = <<>>) => ~RecognizerOn

(***************************************************************************)
(* Statelessness of POST /api/agents/discuss.                              *)
(***************************************************************************)

(* what storage.searchCommands can give the handler, with the connection db *)
SearchOutcomes(db) ==
  { [throws |-> r.throws, value |-> r.value] :
      r \in { searchCommands(db, sorted, 5, d, hits) :
                sorted \in SortedRecent(collection), d \in DriverReplies,
                hits \in {<<>>, Reverse(collection)} } }

(* what storage.getRecentCommands can give the handler *)
RecentOutcomes(db) ==
  { [throws |-> r.throws, value |-> r.value] :
      r \in { getRecentCommands(db, sorted, 5, d) :
                sorted \in SortedRecent(collection), d \in DriverReplies } }

StartsWith(t, r) == Substring(t, 0, TextLen(r)) = r

(* message.substring(0, maxLength) + '...' *)
HardCut(message, maxLength) ==
  Cat(Substring(message, 0, maxLength), T(<<".", ".", ".">>))

(* C31: for a message longer than maxLength summarizeResponse returns a     *)
(* prefix of the message (its leading sentences, none skipped, no text      *)
(* altered) or, when no sentence fits, the first maxLength characters       *)
(* followed by '...'.                                                       *)
C31_SummaryIsLeadingSentences ==
  (Returned("summarizeResponse") /\ TextLen(call.text) > call.maxLength) =>
     \/ StartsWith(call.text, returned[1])
     \/ returned[1] = HardCut(call.text, call.maxLength)

(* what does hold: when every sentence of the message is longer than 20     *)
(* characters and ends with '. ', the result is a prefix of the message or  *)
(* the hard cut                                                             *)
SummaryOfLongSentences ==
  ( /\ Returned("summarizeResponse")
    /\ TextLen(call.text) > call.maxLength
    /\ call.text \in {MessageOf(ls) :
                        ls \in UNION {[1..n -> {25, 60, 200}] : n \in 1..MaxSentences}} ) =>
     \/ StartsWith(call.text, returned[1])
     \/ returned[1] = HardCut(call.text, call.maxLength)

LastSentenceEnd(t) ==
  LET ends == {TextLen(SubSeq(t, 1, j)) - 1 :
                 j \in {k \in 1..Len(t) : t[k].c \in {".", "!", "?"}}}
  IN  IF ends = {} THEN -1 ELSE CHOOSE i \in ends : \A k \in ends : k <= i

(* C33: the text given to speech synthesis is the text unchanged when it    *)
(* has at most 1000 characters; otherwise it is the text up to and with the *)
(* last '.', '!' or '?' of its first 1000 characters when that index is     *)
(* above 700, and else its first 1000 characters followed by '...'; the     *)
(* voice is the one configured for the agent role.                          *)
C33_SpeechTextAndVoice ==
  Returned("generateAgentSpeech") =>
     LET head == Substring(call.text, 0, 1000)
         last == LastSentenceEnd(head)
     IN  /\ returned[1].text =
              (IF TextLen(call.text) <= 1000 THEN call.text
               ELSE IF last > 700 THEN Substring(call.text, 0, last + 1)
               ELSE Cat(head, T(<<".", ".", ".">>)))
         /\ returned[1].voiceId =
              (IF call.agentRole = frontend THEN "female-shaonv"
               ELSE IF call.agentRole = qa THEN "male-qn-jingying"
               ELSE "male-qn-qingse")

(* a long text of the frontend agent cut after a sentence end *)
C33_Witness ==
  /\ Returned("generateAgentSpeech")
  /\ call.agentRole = frontend
  /\ TextLen(call.text) > 1000
  /\ TextLen(returned[1].text) > 701
  /\ TextLen(returned[1].text) <= 1000
  /\ returned[1].voiceId = "female-shaonv"

(* C34: truncateTextForTTS never returns a text longer than its input, and  *)
(* returns one of the same length exactly when nothing was cut.             *)
C34_TruncationNeverLonger ==
  Returned("truncateTextForTTS") =>
     /\ TextLen(returned[1]) <= TextLen(call.text)
     /\ (TextLen(returned[1]) = TextLen(call.text) <=> returned[1] = call.text)

(* what does hold: the result has at most maxChars + 3 characters or is the *)
(* text itself                                                              *)
TruncationWithinBudgetAndEllipsis ==
  Returned("truncateTextForTTS") =>
     \/ returned[1] = call.text
     \/ TextLen(returned[1]) <= call.maxLength + 3

-----------------------------------------------------------------------------
(* Further properties of one request of POST /api/agents/discuss            *)

StageOf(name) ==
  CASE name \in {"storage.searchCommands", "storage.getRecentCommands"} -> 1
    [] name \in {"getMockResearchData", "performResearch", "webSearch"} -> 2
    [] name = "generateContent" -> 3
    [] OTHER -> 4

TimesCalled(name) == Cardinality({i \in 1..Len(calls) : calls[i] = name})

(* C36: the external calls of one request are made in the order history     *)
(* lookup, web search, model invocation, speech synthesis, the history      *)
(* search first, each of them at most once; speech synthesis is called only *)
(* after a model invocation that succeeded, and the model is invoked only   *)
(* when the research step gave no data to answer with.                      *)
C36_ExternalCallOrder ==
  /\ \A i, j \in 1..Len(calls) : i < j => StageOf(calls[i]) <= StageOf(calls[j])
  /\ (calls # <<>> => calls[1] = "storage.searchCommands")
  /\ \A name \in {"storage.searchCommands", "storage.getRecentCommands", "webSearch",
                  "generateContent", "generateAgentSpeech", "fetch"} :
        TimesCalled(name) <= 1
  /\ ("generateAgentSpeech" \in CalledNames =>
         "generateContent" \in CalledNames /\ loc.error = Null /\ res.status # 500)
  /\ ("generateContent" \in CalledNames => loc.researchData = Null)
  /\ ((pc = "responded" /\ loc.researchData # Null) => "generateContent" \notin CalledNames)

(* a request that made every call: the search without data, the model, the  *)
(* speech synthesis                                                         *)
C36_Witness ==
  /\ pc = "responded"
  /\ calls = <<"storage.searchCommands", "performResearch", "webSearch",
               "generateContent", "generateAgentSpeech", "fetch">>

-----------------------------------------------------------------------------
(* Further properties of the Home page                                      *)

(* the step with which a turn completes *)
TurnCompletes == turn.pc = "saveCommand" /\ turn'.pc = "none"

(* stored research that was cleared comes back only with the research of a  *)
(* research-only response, never from the history or from a follow-up       *)
ResearchOnlyFromResearchTurn ==
  (ui.researchData = Null /\ ui'.researchData # Null) =>
     /\ turn.pc = "architect"
     /\ turn.previousResearch = Null
     /\ turn'.outcome = "researchOnly"

(* C37 as stated: when a follow-up turn that sent previousResearch          *)
(* completes, the stored research data is cleared and the Apply Research    *)
(* switch is off, research once cleared is not stored again but by a new    *)
(* research turn, and when a turn that sent no previousResearch completes   *)
(* the switch is off.                                                       *)
C37_ResearchUsedOnceToggleOff ==
  [][ /\ (TurnCompletes /\ turn.previousResearch # Null) =>
            ui'.researchData = Null /\ ~ui'.applyResearchToNext
      /\ ResearchOnlyFromResearchTurn
      /\ (TurnCompletes /\ turn.previousResearch = Null) => ~ui'.applyResearchToNext ]_vars

(* C37 amended: when a follow-up turn that sent previousResearch completes, *)
(* the stored research data is cleared and the switch is off, and research  *)
(* once cleared is not stored again but by a new research turn; when a turn *)
(* that sent no previousResearch completes, the switch is off if it was on  *)
(* when the turn began, and is otherwise left as the user set it while the  *)
(* turn was processing.                                                     *)
C37_ResearchUsedOnceToggleReset ==
  [][ /\ (TurnCompletes /\ turn.previousResearch # Null) =>
            ui'.researchData = Null /\ ~ui'.applyResearchToNext
      /\ ResearchOnlyFromResearchTurn
      /\ (TurnCompletes /\ turn.previousResearch = Null) =>
            /\ ui'.researchData = ui.researchData
            /\ ui'.applyResearchToNext =
                 (IF turn.applyResearchToNext THEN FALSE ELSE ui.applyResearchToNext) ]_vars

(* a follow-up turn has completed: its architect request carried the        *)
(* research, which is no longer stored, and the switch is off               *)
C37_Witness ==
  /\ turn.pc = "none"
  /\ turn.outcome = "completed"
  /\ requests # <<>>
  /\ requests[1].body.previousResearch # Null
  /\ ui.researchData = Null
  /\ ~ui.applyResearchToNext

(* the step with which a turn ends after an agent request failed: it ends   *)
(* before the command is posted and not as a research-only turn             *)
TurnFails ==
  /\ turn.pc \in {"architect", "team"}
  /\ turn'.pc = "none"
  /\ turn'.outcome # "researchOnly"

(* what the catch block does apart from the switch: the failed conversation *)
(* heads the history, the four agents are idle, the stored research data is *)
(* kept, no POST /api/commands was or is issued                             *)
FailureRecorded ==
  /\ ui'.conversations = << [id |-> clock, command |-> turn.text, status |-> "failed",
                             agentStates |-> Null, researchData |-> Null] >>
                         \o ui.conversations
  /\ ui'.agentStates = IdleAgentStates
  /\ ui'.researchData = ui.researchData
  /\ turn.posted = 0
  /\ turn'.posted = 0
  /\ turn'.outcome = "failed"

C39_EveryTurnEnds ==
  /\ [](ui.isProcessing <=> turn.pc # "none")
  /\ [][ (turn.pc = "none" /\ turn'.pc # "none") =>
            ~ui.isProcessing /\ ui'.isProcessing ]_vars
  /\ [][ (turn.pc # "none" /\ turn'.pc = "none") =>
            /\ ~ui'.isProcessing
            /\ turn'.outcome \in {"researchOnly", "completed", "failed"} ]_vars
  /\ (ui.isProcessing ~> ~ui.isProcessing)

(* a turn whose command could not be saved has ended and a next turn can be *)
(* spoken                                                                   *)
C39_Witness ==
  /\ turn.pc = "none"
  /\ turn.outcome = "completed"
  /\ turn.saveStatus = 500
  /\ ~ui.isProcessing
  /\ VoiceInputAvailable(ui)
  /\ Len(ui.conversations) > 1

=============================================================================
